---------------------------- MODULE Spec2Model ----------------------------
(***************************************************************************)
(* Annotation State Engine of geo-matcher (src/geo_matcher/state.py).      *)
(*                                                                         *)
(* The state of a State object is the annotation log `results` (a list of  *)
(* records), the content of the results file it rewrites after every       *)
(* mutation, and its two parameters annotation_redundancy and              *)
(* consensus_margin.  Every scheduling set is recomputed from the log, so  *)
(* the private helpers are operators over `results`; pandas Index objects  *)
(* are sequences without duplicates, DataFrames are sequences of rows.     *)
(***************************************************************************)
EXTENDS Integers, Sequences, FiniteSets, TLC

VARIABLES
    results,                \* self.results: the annotation log
    file,                   \* the CSV at self.results_path: whether it exists, whether
                            \* its header line is written, its rows
    now,                    \* the clock read by datetime.now()
    annotation_redundancy,  \* self.annotation_redundancy (R)
    consensus_margin,       \* self.consensus_margin (M)
    last,                   \* the last mutating method called and the exception it raised
    response,               \* the URL rule of the request handled last and its answer
    export,                 \* the CSV labeled-pairs.csv written by download_results
    pc,                     \* where each request thread of the server is in its code
    local,                  \* the local variables of each request thread
    _states,                \* StateHandler._states: the State registered for a dataset
    instances,              \* the number of State objects constructed for a dataset
    creation                \* the run of create_candidate_pairs_dataset: its inputs, its
                            \* pairs so far, the exception it raised

\* the variables of the request threads, of the StateHandler and of the
\* dataset creation
thread_vars == <<export, pc, local, _states, instances, creation>>

vars == <<results, file, now, annotation_redundancy, consensus_margin, last, response,
          thread_vars>>

---------------------------------------------------------------------------
(* Bounds of the model. *)

\* records in the log
MaxLog == 2
\* largest annotation redundancy a State is constructed with
MaxRedundancy == 2
\* largest consensus margin a State is constructed with
MaxMargin == 2

---------------------------------------------------------------------------
(* The candidate pairs container the State was loaded with. *)

None == "None"
\* the results file before the first store_results: it does not exist
NoFile == [exists |-> FALSE, header |-> FALSE, rows |-> << >>]
\* no request has been answered
NoResponse == [url |-> "", status |-> 0, page |-> ""]

Users == {"alice", "bob", "carol"}

\* self.pairs[["id_existing", "id_new"]], in table order
pairs == << <<"E1", "N1">>, <<"E1", "N2">>, <<"E2", "N2">> >>

\* self.data_b["neighborhood"], by building id
data_b_neighborhood == [b \in {"N1", "N2"} |-> IF b = "N1" THEN "h1" ELSE "h2"]

\* every (id_existing, id_new) a client can send, in lexicographic order;
\* <<"E2", "N1">> is no row of the table (an ad hoc added match)
PairUniverse == << <<"E1", "N1">>, <<"E1", "N2">>, <<"E2", "N1">>, <<"E2", "N2">> >>

\* neighborhood identifiers in sort order
NeighborhoodUniverse == <<"h1", "h2">>

Labels == {"yes", "no", "unsure"}

\* match values a caller can pass; "maybe" is not a label
MatchInputs == Labels \cup {"maybe"}

LabelModes == {"all", "unlabeled", "cross-validate"}

random_state == 42

---------------------------------------------------------------------------
(* Sequences as pandas objects. *)

Range(s) == {s[i] : i \in 1..Len(s)}

\* the rows of s at the positions idx, in position order
Take(s, idx) ==
    LET kept(i) == i \in idx
        at == SelectSeq([i \in 1..Len(s) |-> i], kept)
    IN  [k \in 1..Len(at) |-> s[at[k]]]

\* the elements of the sequence s that are in the set S, in the order of s
Keep(s, S) == LET in(x) == x \in S IN SelectSeq(s, in)

\* Index.union(other, sort=False): self, then what other adds
IndexUnion(a, b) == LET new(x) == x \notin Range(a) IN a \o SelectSeq(b, new)

\* Index.drop(labels, errors="ignore")
IndexDrop(a, labels) == LET kept(x) == x \notin labels IN SelectSeq(a, kept)

Pair(r) == <<r.id_existing, r.id_new>>

Abs(x) == IF x < 0 THEN -x ELSE x

---------------------------------------------------------------------------
(* Private helpers of State. *)

\* variant of drop_duplicates with keep="first"
drop_duplicates_keep_first(df) ==
    Take(df, {i \in 1..Len(df) :
                \A j \in 1..(i-1) :
                    ~ (/\ df[j].id_existing = df[i].id_existing
                       /\ df[j].id_new = df[i].id_new
                       /\ df[j].username = df[i].username)})

\* DataFrame.drop_duplicates(subset=[id_existing, id_new, username], keep="last")
drop_duplicates(df) ==
    Take(df, {i \in 1..Len(df) :
                \A j \in (i+1)..Len(df) :
                    ~ (/\ df[j].id_existing = df[i].id_existing
                       /\ df[j].id_new = df[i].id_new
                       /\ df[j].username = df[i].username)})

_unique_results(log, include_unsure) ==
    IF Len(log) = 0 THEN << >>
    ELSE LET uniq == drop_duplicates(log)
         IN  IF include_unsure THEN uniq
             ELSE LET sure(r) == r.match # "unsure" IN SelectSeq(uniq, sure)

\* Index.to_series().sample(frac=1, random_state=...): one fixed permutation,
\* a function of the seed and the length only
_shuffled(index) ==
    LET n == Len(index)
    IN  [i \in 1..n |-> index[((i - 1 + random_state) % n) + 1]]

_all_pairs == _shuffled(pairs)

\* variant of _labeled_pairs that reads _unique_results(include_unsure=False)
_labeled_pairs_without_unsure(log, user) ==
    LET rows == _unique_results(log, FALSE)
    IN  {Pair(rows[i]) : i \in {k \in 1..Len(rows) : rows[k].username = user}}

_labeled_pairs(log, user) ==
    LET rows == _unique_results(log, TRUE)
    IN  {Pair(rows[i]) : i \in {k \in 1..Len(rows) : rows[k].username = user}}

_unlabeled_pairs(log) ==
    LET labeled_pairs == {Pair(log[i]) : i \in {k \in 1..Len(log) : log[k].match # "unsure"}}
    IN  IndexDrop(_all_pairs, labeled_pairs)

\* groupby([id_existing, id_new])[username].nunique() over the rows df
labeling_count(df, p) ==
    Cardinality({df[i].username : i \in {k \in 1..Len(df) : Pair(df[k]) = p}})

\* the group keys of groupby([id_existing, id_new]), sorted
group_keys(df) == Keep(PairUniverse, {Pair(df[i]) : i \in 1..Len(df)})

\* variant of _insufficiently_labeled_pairs with the threshold R instead of R + 1
_insufficiently_labeled_pairs_below_R(log, R) ==
    LET df == _unique_results(log, FALSE)
        keys == group_keys(df)
        few(p) == labeling_count(df, p) < R
    IN  SelectSeq(keys, few)

_insufficiently_labeled_pairs(log, R) ==
    LET df == _unique_results(log, FALSE)
        keys == group_keys(df)
        few(p) == labeling_count(df, p) < R + 1
    IN  SelectSeq(keys, few)

\* value_counts().unstack(fill_value=0): rows of df for pair p with match m
label_counts(df, p, m) ==
    Cardinality({i \in 1..Len(df) : Pair(df[i]) = p /\ df[i].match = m})

\* variant of _ambiguously_labeled_pairs that counts the unsure rows as no
_ambiguously_labeled_pairs_with_unsure(log, M) ==
    LET df == _unique_results(log, TRUE)
        keys == group_keys(df)
        ambiguous(p) == Abs(label_counts(df, p, "yes")
                            - (label_counts(df, p, "no") + label_counts(df, p, "unsure"))) < M
    IN  SelectSeq(keys, ambiguous)

_ambiguously_labeled_pairs(log, M) ==
    LET df == _unique_results(log, FALSE)
        keys == group_keys(df)
        ambiguous(p) == Abs(label_counts(df, p, "yes") - label_counts(df, p, "no")) < M
    IN  SelectSeq(keys, ambiguous)

\* variant of _next_pairs whose mode "all" starts from the unlabeled pairs
_next_pairs_all_from_unlabeled(log, R, M, label_mode, user) ==
    LET remaining ==
            IF label_mode = "all" THEN _unlabeled_pairs(log)
            ELSE IF label_mode = "unlabeled"
                 THEN IndexUnion(IndexUnion(_ambiguously_labeled_pairs(log, M),
                                            _insufficiently_labeled_pairs(log, R)),
                                 _unlabeled_pairs(log))
            ELSE IndexUnion(_ambiguously_labeled_pairs(log, M),
                            _insufficiently_labeled_pairs(log, R))
    IN  IndexDrop(remaining, _labeled_pairs(log, user))

\* variant of _next_pairs whose mode "cross-validate" starts from all pairs
_next_pairs_cross_validate_from_all(log, R, M, label_mode, user) ==
    LET remaining ==
            IF label_mode = "all" THEN _all_pairs
            ELSE IF label_mode = "unlabeled"
                 THEN IndexUnion(IndexUnion(_ambiguously_labeled_pairs(log, M),
                                            _insufficiently_labeled_pairs(log, R)),
                                 _unlabeled_pairs(log))
            ELSE _all_pairs
    IN  IndexDrop(remaining, _labeled_pairs(log, user))

_next_pairs(log, R, M, label_mode, user) ==
    LET remaining ==
            IF label_mode = "all" THEN _all_pairs
            ELSE IF label_mode = "unlabeled"
                 THEN IndexUnion(IndexUnion(_ambiguously_labeled_pairs(log, M),
                                            _insufficiently_labeled_pairs(log, R)),
                                 _unlabeled_pairs(log))
            ELSE IndexUnion(_ambiguously_labeled_pairs(log, M),
                            _insufficiently_labeled_pairs(log, R))
    IN  IndexDrop(remaining, _labeled_pairs(log, user))

\* Index(self.pairs["id_new"].map(self.data_b["neighborhood"]).unique()):
\* the neighborhoods of the table rows, in order of first appearance
get_all_neighborhoods ==
    LET nbh == [i \in 1..Len(pairs) |-> data_b_neighborhood[pairs[i][2]]]
    IN  Take(nbh, {i \in 1..Len(nbh) : \A j \in 1..(i-1) : nbh[j] # nbh[i]})

\* Index(all_nbh - labeled_nbh): the elements of a Python set, in the set's
\* iteration order set_order (it depends on the process's string hashing)
_unlabeled_neighborhoods(log, set_order) ==
    LET labeled_nbh == {log[i].neighborhood : i \in {k \in 1..Len(log) : log[k].match # "unsure"}}
    IN  IndexDrop(set_order, labeled_nbh \cup (Range(set_order) \ Range(get_all_neighborhoods)))

\* groupby("neighborhood")["username"].nunique(): rows without a
\* neighborhood form no group
_insufficiently_labeled_neighborhoods(log, R) ==
    LET df == _unique_results(log, FALSE)
        keys == Keep(NeighborhoodUniverse, {df[i].neighborhood : i \in 1..Len(df)})
        count(h) == Cardinality({df[i].username : i \in {k \in 1..Len(df) : df[k].neighborhood = h}})
        few(h) == count(h) < R + 1
    IN  SelectSeq(keys, few)

_labeled_neighborhoods(log, user) ==
    LET rows == _unique_results(log, TRUE)
    IN  {rows[i].neighborhood : i \in {k \in 1..Len(rows) : rows[k].username = user}}

\* Index.union(other) with the default sort=None: an empty side returns the
\* other side as it is, otherwise the union is sorted
IndexUnionSorted(a, b) ==
    IF Len(b) = 0 THEN a
    ELSE IF Len(a) = 0 THEN b
    ELSE Keep(NeighborhoodUniverse, Range(a) \cup Range(b))

_next_neighborhoods(log, R, label_mode, user, set_order) ==
    LET remaining ==
            IF label_mode = "all" THEN get_all_neighborhoods
            ELSE IF label_mode = "unlabeled"
                 THEN IndexUnionSorted(_insufficiently_labeled_neighborhoods(log, R),
                                       _unlabeled_neighborhoods(log, set_order))
            ELSE _insufficiently_labeled_neighborhoods(log, R)
    IN  IndexDrop(remaining, _labeled_neighborhoods(log, user))

---------------------------------------------------------------------------
(* Queries.  They read the log and nothing else, so each is an operator of  *)
(* the log and the two parameters.  _next_pairs and _next_neighborhoods     *)
(* raise ValueError for a label mode outside LabelModes, which the getters  *)
(* do not catch; the getters turn an IndexError into "no item".             *)

get_next_pair(log, R, M, label_mode, user) ==
    IF label_mode \notin LabelModes THEN "ValueError"
    ELSE LET remaining == _next_pairs(log, R, M, label_mode, user)
         IN  IF Len(remaining) >= 1 THEN remaining[1] ELSE <<None, None>>

get_pair_after_next(log, R, M, label_mode, user) ==
    IF label_mode \notin LabelModes THEN "ValueError"
    ELSE LET remaining == _next_pairs(log, R, M, label_mode, user)
         IN  IF Len(remaining) >= 2 THEN remaining[2] ELSE <<None, None>>

get_next_neighborhood(log, R, label_mode, user, set_order) ==
    IF label_mode \notin LabelModes THEN "ValueError"
    ELSE LET remaining == _next_neighborhoods(log, R, label_mode, user, set_order)
         IN  IF Len(remaining) >= 1 THEN remaining[1] ELSE None

get_neighborhood_after_next(log, R, label_mode, user, set_order) ==
    IF label_mode \notin LabelModes THEN "ValueError"
    ELSE LET remaining == _next_neighborhoods(log, R, label_mode, user, set_order)
         IN  IF Len(remaining) >= 2 THEN remaining[2] ELSE None

\* the orders in which a Python set of the neighborhoods can be iterated
SetOrders ==
    {o \in [1..Len(NeighborhoodUniverse) -> Range(NeighborhoodUniverse)] :
        \A i, j \in 1..Len(NeighborhoodUniverse) : i # j => o[i] # o[j]}

---------------------------------------------------------------------------
(* Persistence. *)

\* DataFrame.to_csv(index=False): a missing neighborhood is written as an
\* empty field
to_csv(df) ==
    [i \in 1..Len(df) |->
        [df[i] EXCEPT !.neighborhood = IF @ = None THEN "" ELSE @]]

\* the float NaN pandas reads an empty field as
NaN == "nan"

\* pd.read_csv(...).to_dict("records"): an empty field is read as NaN
read_csv(rows) ==
    [i \in 1..Len(rows) |->
        [rows[i] EXCEPT !.neighborhood = IF @ = "" THEN NaN ELSE @]]

\* State._load_results: the records of the results file when it exists
_load_results(f) == IF f.exists THEN read_csv(f.rows) ELSE << >>

\* variant of store_results that writes _unique_results(include_unsure=False)
store_results_without_unsure(log) ==
    [exists |-> TRUE, header |-> TRUE, rows |-> to_csv(_unique_results(log, FALSE))]

store_results(log) ==
    [exists |-> TRUE, header |-> TRUE, rows |-> to_csv(_unique_results(log, TRUE))]

\* the label of the first largest count in the column order yes, no, unsure
\* (DataFrame.idxmax(axis=1))
idxmax(yes, no, unsure) ==
    IF yes >= no /\ yes >= unsure THEN "yes"
    ELSE IF no >= unsure THEN "no"
    ELSE "unsure"

\* lines 247-258 of store_aggregated_results: the rows of results_ whose pair
\* is not in unlabeled, grouped by pair, with the counts of the three labels
\* and the label of the largest count
aggregate_label_counts(results_, unlabeled) ==
    LET labeled_mask(r) == Pair(r) \notin unlabeled
        df == SelectSeq(results_, labeled_mask)
        keys == group_keys(df)
    IN  [k \in 1..Len(keys) |->
            LET yes == label_counts(df, keys[k], "yes")
                no == label_counts(df, keys[k], "no")
                unsure == label_counts(df, keys[k], "unsure")
            IN  [id_existing    |-> keys[k][1],
                 id_new         |-> keys[k][2],
                 count_match    |-> yes,
                 count_no_match |-> no,
                 count_unsure   |-> unsure,
                 match          |-> idxmax(yes, no, unsure)]]

\* variant of store_aggregated_results that counts the rows of the whole log
store_aggregated_results_whole_log(log, R, M) ==
    aggregate_label_counts(log, Range(_next_pairs(log, R, M, "unlabeled", None)))

\* the rows store_aggregated_results writes to its path, one per group key
store_aggregated_results(log, R, M) ==
    aggregate_label_counts(_unique_results(log, TRUE),
                           Range(_next_pairs(log, R, M, "unlabeled", None)))

---------------------------------------------------------------------------
(* Operations. *)

Init ==
    /\ results = << >>
    /\ file = NoFile
    /\ now = 0
    /\ annotation_redundancy \in 0..MaxRedundancy
    /\ consensus_margin \in 0..MaxMargin
    /\ last = [op |-> "__init__", raised |-> None]
    /\ response = NoResponse
    /\ export = NoFile
    /\ pc = << >>
    /\ local = << >>
    /\ _states = << >>
    /\ instances = << >>
    /\ creation = << >>

\* variant of add_result without the check of the match label
add_result_unchecked(id_existing, id_new, match, username) ==
    /\ results' = Append(results,
                         [neighborhood |-> None,
                          id_existing  |-> id_existing,
                          id_new       |-> id_new,
                          match        |-> match,
                          username     |-> username,
                          time         |-> now])
    /\ file' = store_results(results')
    /\ now' = now + 1
    /\ last' = [op |-> "add_result", raised |-> None]
    /\ UNCHANGED <<annotation_redundancy, consensus_margin>>

\* variant of add_result that writes the record over the record the user
\* has for the pair, when there is one
add_result_overwriting(id_existing, id_new, match, username) ==
    LET record == [neighborhood |-> None,
                   id_existing  |-> id_existing,
                   id_new       |-> id_new,
                   match        |-> match,
                   username     |-> username,
                   time         |-> now]
        own == {i \in 1..Len(results) :
                    /\ results[i].id_existing = id_existing
                    /\ results[i].id_new = id_new
                    /\ results[i].username = username}
    IN  IF match \notin {"yes", "no", "unsure"}
        THEN /\ last' = [op |-> "add_result", raised |-> "ValueError"]
             /\ UNCHANGED <<results, file, now, annotation_redundancy, consensus_margin>>
        ELSE /\ results' = IF own = {} THEN Append(results, record)
                           ELSE [i \in 1..Len(results) |->
                                    IF i \in own THEN record ELSE results[i]]
             /\ file' = store_results(results')
             /\ now' = now + 1
             /\ last' = [op |-> "add_result", raised |-> None]
             /\ UNCHANGED <<annotation_redundancy, consensus_margin>>

add_result(id_existing, id_new, match, username) ==
    IF match \notin {"yes", "no", "unsure"}
    THEN /\ last' = [op |-> "add_result", raised |-> "ValueError"]
         /\ UNCHANGED <<results, file, now, annotation_redundancy, consensus_margin>>
    ELSE /\ results' = Append(results,
                              [neighborhood |-> None,
                               id_existing  |-> id_existing,
                               id_new       |-> id_new,
                               match        |-> match,
                               username     |-> username,
                               time         |-> now])
         /\ file' = store_results(results')
         /\ now' = now + 1
         /\ last' = [op |-> "add_result", raised |-> None]
         /\ UNCHANGED <<annotation_redundancy, consensus_margin>>

\* variant of add_bulk_results that checks row by row while appending: the
\* rows before the first bad label are appended and stored before it raises
add_bulk_results_rowwise(df) ==
    LET bad == {i \in 1..Len(df) : df[i].match \notin {"yes", "no", "unsure"}}
        ok  == {i \in 1..Len(df) : \A j \in bad : i < j}
        rows == [i \in 1..Cardinality(ok) |->
                    [neighborhood |-> df[i].neighborhood,
                     id_existing  |-> df[i].id_existing,
                     id_new       |-> df[i].id_new,
                     match        |-> df[i].match,
                     username     |-> df[i].username,
                     time         |-> now]]
    IN  /\ results' = results \o rows
        /\ file' = IF rows = << >> THEN file ELSE store_results(results')
        /\ now' = IF rows = << >> THEN now ELSE now + 1
        /\ last' = [op |-> "add_bulk_results",
                    raised |-> IF bad = {} THEN None ELSE "ValueError"]
        /\ UNCHANGED <<annotation_redundancy, consensus_margin>>

\* df: a sequence of rows [neighborhood, id_existing, id_new, match, username]
add_bulk_results(df) ==
    IF \E i \in 1..Len(df) : df[i].match \notin {"yes", "no", "unsure"}
    THEN /\ last' = [op |-> "add_bulk_results", raised |-> "ValueError"]
         /\ UNCHANGED <<results, file, now, annotation_redundancy, consensus_margin>>
    ELSE /\ results' = results \o
                        [i \in 1..Len(df) |->
                            [neighborhood |-> df[i].neighborhood,
                             id_existing  |-> df[i].id_existing,
                             id_new       |-> df[i].id_new,
                             match        |-> df[i].match,
                             username     |-> df[i].username,
                             time         |-> now]]
         /\ file' = store_results(results')
         /\ now' = now + 1
         /\ last' = [op |-> "add_bulk_results", raised |-> None]
         /\ UNCHANGED <<annotation_redundancy, consensus_margin>>

---------------------------------------------------------------------------
(* Inputs. *)

\* the candidate pairs of a neighborhood, in table order
\* (State.get_candidate_pairs)
get_candidate_pairs(neighborhood) ==
    LET new(p) == data_b_neighborhood[p[2]] = neighborhood IN SelectSeq(pairs, new)

\* the batches store_neighborhood hands over: one row per candidate pair of
\* the neighborhood, all rows with the session's username
Batches ==
    UNION {
        LET cp == get_candidate_pairs(h)
        IN  {[i \in 1..Len(cp) |->
                [neighborhood |-> h,
                 id_existing  |-> cp[i][1],
                 id_new       |-> cp[i][2],
                 match        |-> m[i],
                 username     |-> u]] :
             m \in [1..Len(cp) -> MatchInputs]}
        : h \in Range(NeighborhoodUniverse), u \in Users}

Mutate(max) ==
    \/ \E p \in Range(PairUniverse), m \in MatchInputs, u \in Users :
            /\ Len(results) < max
            /\ add_result(p[1], p[2], m, u)
            /\ UNCHANGED <<response, thread_vars>>
    \/ \E df \in Batches :
            /\ Len(results) + Len(df) <= max
            /\ add_bulk_results(df)
            /\ UNCHANGED <<response, thread_vars>>

Next == Mutate(MaxLog)

Spec == Init /\ [][Next]_vars

---------------------------------------------------------------------------
(* Request handlers of the web application (src/geo_matcher/app.py).  The   *)
(* session of a request is its username and its label mode; the label mode  *)
(* of a session is one of LabelModes (start_session refuses any other).     *)

\* largest number of stored submissions in the application's specification
MaxSubmissions == 2
\* largest annotation redundancy the application is started with
MaxRedundancyApp == 0
\* consensus margin the application is started with when -m is not given
consensus_margin_default == 1

\* usernames of the sessions
AppUsers == {"alice", "bob"}

\* identifiers a client can put in the URL of /show-pair: a row of the table,
\* the pair of two known ids that is no row, and a pair with an unknown id
RequestedPairs == {<<"E1", "N1">>, <<"E2", "N1">>, <<"E3", "N1">>}

\* identifiers a client can put in the URL of /show-neighborhood
RequestedNeighborhoods == {"h1", "h3"}

valid_pair(id_existing, id_new) ==
    /\ id_existing \in {pairs[i][1] : i \in 1..Len(pairs)}
    /\ id_new \in {pairs[i][2] : i \in 1..Len(pairs)}

\* variant of show_candidate_pair that answers with the completion page
\* without storing the results
show_candidate_pair_without_store(username, mode, id_existing, id_new) ==
    LET id == IF id_existing = None \/ id_new = None
              THEN get_next_pair(results, annotation_redundancy, consensus_margin,
                                 mode, username)
              ELSE <<id_existing, id_new>>
        url == IF id_existing = None \/ id_new = None
               THEN "/show-pair" ELSE "/show-pair/<id_existing>/<id_new>"
    IN  /\ response' =
               IF id[1] = None
               THEN [url |-> url, status |-> 200, page |-> "success.html"]
               ELSE IF ~ valid_pair(id[1], id[2])
               THEN [url |-> url, status |-> 404, page |-> "not found"]
               ELSE [url |-> url, status |-> 200, page |-> "show_candidate_pair.html"]
        /\ UNCHANGED <<results, file, now, annotation_redundancy, consensus_margin, last>>

\* GET /show-pair (id_existing = id_new = None) and
\* GET /show-pair/<id_existing>/<id_new>
show_candidate_pair(username, mode, id_existing, id_new) ==
    LET id == IF id_existing = None \/ id_new = None
              THEN get_next_pair(results, annotation_redundancy, consensus_margin,
                                 mode, username)
              ELSE <<id_existing, id_new>>
        url == IF id_existing = None \/ id_new = None
               THEN "/show-pair" ELSE "/show-pair/<id_existing>/<id_new>"
    IN  IF id[1] = None
        THEN /\ file' = store_results(results)
             /\ response' = [url |-> url, status |-> 200, page |-> "success.html"]
             /\ UNCHANGED <<results, now, annotation_redundancy, consensus_margin, last>>
        ELSE IF ~ valid_pair(id[1], id[2])
        THEN /\ response' = [url |-> url, status |-> 404, page |-> "not found"]
             /\ UNCHANGED <<results, file, now, annotation_redundancy, consensus_margin, last>>
        ELSE /\ response' = [url |-> url, status |-> 200,
                             page |-> "show_candidate_pair.html"]
             /\ UNCHANGED <<results, file, now, annotation_redundancy, consensus_margin, last>>

\* GET /show-neighborhood (id = None) and GET /show-neighborhood/<id>
show_neighborhood(username, mode, id_, set_order) ==
    LET id == IF id_ = None
              THEN get_next_neighborhood(results, annotation_redundancy, mode, username,
                                         set_order)
              ELSE id_
        url == IF id_ = None THEN "/show-neighborhood" ELSE "/show-neighborhood/<id>"
    IN  IF id = None
        THEN /\ file' = store_results(results)
             /\ response' = [url |-> url, status |-> 200, page |-> "success.html"]
             /\ UNCHANGED <<results, now, annotation_redundancy, consensus_margin, last>>
        ELSE IF id \notin Range(get_all_neighborhoods)
        THEN /\ response' = [url |-> url, status |-> 404, page |-> "not found"]
             /\ UNCHANGED <<results, file, now, annotation_redundancy, consensus_margin, last>>
        ELSE /\ response' = [url |-> url, status |-> 200,
                             page |-> "show_neighborhood.html"]
             /\ UNCHANGED <<results, file, now, annotation_redundancy, consensus_margin, last>>

\* POST /store-label: an exception of add_result becomes the answer 500; the
\* ids of the next pair in the JSON body are read with get_next_pair
store_label(username, id_existing, id_new, match) ==
    /\ add_result(id_existing, id_new, match, username)
    /\ response' = IF last'.raised = None
                   THEN [url |-> "/store-label", status |-> 200, page |-> "json"]
                   ELSE [url |-> "/store-label", status |-> 500, page |-> "error"]

\* _update_matches: the rows of the listed matches get the label; a listed
\* match that is no row is appended when add_if_missing
_update_matches(candidate_pairs, matches, label, add_if_missing) ==
    LET listed(r) == \E k \in 1..Len(matches) : matches[k] = Pair(r)
        missing(p) == ~ \E i \in 1..Len(candidate_pairs) : Pair(candidate_pairs[i]) = p
        new_candidate_pairs == IF add_if_missing THEN SelectSeq(matches, missing) ELSE << >>
    IN  [i \in 1..Len(candidate_pairs) |->
            IF listed(candidate_pairs[i])
            THEN [candidate_pairs[i] EXCEPT !.match = label]
            ELSE candidate_pairs[i]]
        \o [k \in 1..Len(new_candidate_pairs) |->
                [id_existing |-> new_candidate_pairs[k][1],
                 id_new      |-> new_candidate_pairs[k][2],
                 match       |-> label]]

\* POST /store-neighborhood: pairs_ is the list of rows [id_existing, id_new,
\* match] of the request, added and removed its lists of pairs; the booleans
\* of the request are the strings "True" and "False"
store_neighborhood(username, id, pairs_, added, removed) ==
    LET results_ == _update_matches(_update_matches(pairs_, removed, "no", FALSE),
                                    added, "yes", TRUE)
        df == [i \in 1..Len(results_) |->
                  [neighborhood |-> id,
                   id_existing  |-> results_[i].id_existing,
                   id_new       |-> results_[i].id_new,
                   match        |-> IF results_[i].match = "True" THEN "yes"
                                    ELSE IF results_[i].match = "False" THEN "no"
                                    ELSE results_[i].match,
                   username     |-> username]]
    IN  /\ add_bulk_results(df)
        /\ response' = IF last'.raised = None
                       THEN [url |-> "/store-neighborhood", status |-> 200, page |-> "json"]
                       ELSE [url |-> "/store-neighborhood", status |-> 500, page |-> "error"]

\* the request bodies of /store-neighborhood: one row per candidate pair of
\* the neighborhood shown, ticked or not
RequestPairs(id) ==
    LET cp == get_candidate_pairs(id)
    IN  {[i \in 1..Len(cp) |->
            [id_existing |-> cp[i][1], id_new |-> cp[i][2], match |-> m[i]]] :
         m \in [1..Len(cp) -> {"True", "False"}]}

\* the application is started on a dataset without results
InitApp ==
    /\ Init
    /\ annotation_redundancy <= MaxRedundancyApp
    /\ consensus_margin = consensus_margin_default

NextApp ==
    \/ \E u \in AppUsers, lm \in LabelModes :
            show_candidate_pair(u, lm, None, None) /\ UNCHANGED thread_vars
    \/ \E u \in AppUsers, lm \in LabelModes, p \in RequestedPairs :
            show_candidate_pair(u, lm, p[1], p[2]) /\ UNCHANGED thread_vars
    \/ \E u \in AppUsers, lm \in LabelModes, o \in SetOrders :
            show_neighborhood(u, lm, None, o) /\ UNCHANGED thread_vars
    \/ \E u \in AppUsers, lm \in LabelModes, id \in RequestedNeighborhoods :
            show_neighborhood(u, lm, id, NeighborhoodUniverse) /\ UNCHANGED thread_vars
    \/ \E u \in AppUsers, p \in Range(PairUniverse), m \in MatchInputs :
            /\ now < MaxSubmissions
            /\ store_label(u, p[1], p[2], m)
            /\ UNCHANGED thread_vars
    \/ \E u \in AppUsers, id \in Range(NeighborhoodUniverse) :
         \E pairs_ \in RequestPairs(id),
            added \in {<< >>, << <<"E2", "N1">> >>},
            removed \in {<< >>, << get_candidate_pairs(id)[1] >>} :
            /\ now < MaxSubmissions
            /\ store_neighborhood(u, id, pairs_, added, removed)
            /\ UNCHANGED thread_vars

SpecApp == InitApp /\ [][NextApp]_vars

---------------------------------------------------------------------------
(* Requests served concurrently.  The server (waitress.serve, app.py:51)    *)
(* handles every request in one of its worker threads, all on the State of  *)
(* the dataset; a thread can be preempted between any two statements, and   *)
(* list.append is one step.  Each thread serves one client.                 *)

Threads == {"t1", "t2"}

\* the log a State is constructed with: none, or the record of an existing
\* results file (_load_results)
InitialLogs ==
    {<< >>,
     << [neighborhood |-> None, id_existing |-> "E1", id_new |-> "N2",
         match |-> "yes", username |-> "carol", time |-> 0] >>}

\* a file opened for writing: it exists and is empty
truncated == [exists |-> TRUE, header |-> FALSE, rows |-> << >>]

\* a file after the header and the rows df are written from its start: what
\* another writer had written behind them stays
written(f, df) ==
    [exists |-> TRUE, header |-> TRUE,
     rows |-> df \o SubSeq(f.rows, Len(df) + 1, Len(f.rows))]

\* GET /show-pair: the next pair of the session is read (app.py:119-126)
request_show_candidate_pair(t) ==
    /\ pc[t] = "idle"
    /\ LET id == get_next_pair(results, annotation_redundancy, consensus_margin,
                               local[t].label_mode, local[t].username)
       IN  /\ local' = [local EXCEPT ![t].request = "/show-pair", ![t].id = id]
           /\ pc' = [pc EXCEPT ![t] = IF id[1] = None THEN "store_results" ELSE "shown"]
    /\ UNCHANGED <<results, file, now, annotation_redundancy, consensus_margin, last,
                   response, export, _states, instances, creation>>

\* POST /store-label for the pair shown: add_result checks the label and
\* builds the record with the time of the clock (state.py:101-111)
add_result_record(t, match) ==
    /\ pc[t] = "shown"
    /\ IF match \notin {"yes", "no", "unsure"}
       THEN /\ last' = [op |-> "add_result", raised |-> "ValueError"]
            /\ response' = [url |-> "/store-label", status |-> 500, page |-> "error"]
            /\ local' = [local EXCEPT ![t].request = "/store-label", ![t].match = match]
            /\ pc' = [pc EXCEPT ![t] = "done"]
            /\ UNCHANGED now
       ELSE /\ local' = [local EXCEPT ![t].request = "/store-label", ![t].match = match,
                                      ![t].time = now]
            /\ now' = now + 1
            /\ pc' = [pc EXCEPT ![t] = "append"]
            /\ UNCHANGED <<last, response>>
    /\ UNCHANGED <<results, file, annotation_redundancy, consensus_margin, export,
                   _states, instances, creation>>

\* variant of add_result_append that replaces the records of the pair
add_result_append_replacing_pair(t) ==
    /\ pc[t] = "append"
    /\ LET other(r) == Pair(r) # local[t].id
       IN  results' = Append(SelectSeq(results, other),
                             [neighborhood |-> None,
                              id_existing  |-> local[t].id[1],
                              id_new       |-> local[t].id[2],
                              match        |-> local[t].match,
                              username     |-> local[t].username,
                              time         |-> local[t].time])
    /\ last' = [op |-> "add_result", raised |-> None]
    /\ pc' = [pc EXCEPT ![t] = "store_results"]
    /\ UNCHANGED <<file, now, annotation_redundancy, consensus_margin, response, export,
                   local, _states, instances, creation>>

\* self.results.append(record) (state.py:104)
add_result_append(t) ==
    /\ pc[t] = "append"
    /\ results' = Append(results,
                         [neighborhood |-> None,
                          id_existing  |-> local[t].id[1],
                          id_new       |-> local[t].id[2],
                          match        |-> local[t].match,
                          username     |-> local[t].username,
                          time         |-> local[t].time])
    /\ last' = [op |-> "add_result", raised |-> None]
    /\ pc' = [pc EXCEPT ![t] = "store_results"]
    /\ UNCHANGED <<file, now, annotation_redundancy, consensus_margin, response, export,
                   local, _states, instances, creation>>

\* store_results: the frame self._unique_results(include_unsure=True)
store_results_frame(t) ==
    /\ pc[t] = "store_results"
    /\ local' = [local EXCEPT ![t].df = to_csv(_unique_results(results, TRUE))]
    /\ pc' = [pc EXCEPT ![t] = "open"]
    /\ UNCHANGED <<results, file, now, annotation_redundancy, consensus_margin, last,
                   response, export, _states, instances, creation>>

\* store_results: to_csv opens self.results_path for writing
store_results_open(t) ==
    /\ pc[t] = "open"
    /\ file' = truncated
    /\ pc' = [pc EXCEPT ![t] = "write"]
    /\ UNCHANGED <<results, now, annotation_redundancy, consensus_margin, last, response,
                   export, local, _states, instances, creation>>

\* store_results: to_csv writes the frame and closes the file
store_results_write(t) ==
    /\ pc[t] = "write"
    /\ file' = written(file, local[t].df)
    /\ pc' = [pc EXCEPT ![t] = "respond"]
    /\ UNCHANGED <<results, now, annotation_redundancy, consensus_margin, last, response,
                   export, local, _states, instances, creation>>

\* the handler answers: the completion page of /show-pair (app.py:128) or
\* the JSON of /store-label (app.py:204-206)
request_respond(t) ==
    /\ pc[t] = "respond"
    /\ response' = IF local[t].request = "/show-pair"
                   THEN [url |-> "/show-pair", status |-> 200, page |-> "success.html"]
                   ELSE [url |-> "/store-label", status |-> 200, page |-> "json"]
    /\ pc' = [pc EXCEPT ![t] = "done"]
    /\ UNCHANGED <<results, file, now, annotation_redundancy, consensus_margin, last,
                   export, local, _states, instances, creation>>

\* GET /download-results: store_aggregated_results reads the deduplicated
\* records (state.py:245)
store_aggregated_results_frame(t) ==
    /\ pc[t] = "idle"
    /\ local' = [local EXCEPT ![t].request = "/download-results",
                              ![t].df = _unique_results(results, TRUE)]
    /\ pc' = [pc EXCEPT ![t] = "next_pairs"]
    /\ UNCHANGED <<results, file, now, annotation_redundancy, consensus_margin, last,
                   response, export, _states, instances, creation>>

\* store_aggregated_results reads the unlabeled pairs and counts the labels
\* (state.py:246-258)
store_aggregated_results_counts(t) ==
    /\ pc[t] = "next_pairs"
    /\ local' = [local EXCEPT ![t].df =
                    aggregate_label_counts(
                        local[t].df,
                        Range(_next_pairs(results, annotation_redundancy, consensus_margin,
                                          "unlabeled", None)))]
    /\ pc' = [pc EXCEPT ![t] = "open_export"]
    /\ UNCHANGED <<results, file, now, annotation_redundancy, consensus_margin, last,
                   response, export, _states, instances, creation>>

\* store_aggregated_results: to_csv opens labeled-pairs.csv for writing
store_aggregated_results_open(t) ==
    /\ pc[t] = "open_export"
    /\ export' = truncated
    /\ pc' = [pc EXCEPT ![t] = "write_export"]
    /\ UNCHANGED <<results, file, now, annotation_redundancy, consensus_margin, last,
                   response, local, _states, instances, creation>>

\* store_aggregated_results: to_csv writes the rows and closes the file
store_aggregated_results_write(t) ==
    /\ pc[t] = "write_export"
    /\ export' = written(export, local[t].df)
    /\ pc' = [pc EXCEPT ![t] = "send_file"]
    /\ UNCHANGED <<results, file, now, annotation_redundancy, consensus_margin, last,
                   response, local, _states, instances, creation>>

\* download_results: send_file(path) reads labeled-pairs.csv (app.py:252)
download_results_send_file(t) ==
    /\ pc[t] = "send_file"
    /\ local' = [local EXCEPT ![t].sent = export]
    /\ response' = [url |-> "/download-results", status |-> 200, page |-> "labeled-pairs.csv"]
    /\ pc' = [pc EXCEPT ![t] = "done"]
    /\ UNCHANGED <<results, file, now, annotation_redundancy, consensus_margin, last,
                   export, _states, instances, creation>>

\* the server is started on a dataset; every thread serves the session of a
\* user with a label mode
InitThreads ==
    /\ results \in InitialLogs
    /\ file = IF Len(results) = 0 THEN NoFile ELSE store_results(results)
    /\ now = Len(results)
    /\ annotation_redundancy \in 0..MaxRedundancyApp
    /\ consensus_margin = consensus_margin_default
    /\ last = [op |-> "__init__", raised |-> None]
    /\ response = NoResponse
    /\ export = NoFile
    /\ pc = [t \in Threads |-> "idle"]
    /\ \E username \in [Threads -> AppUsers], label_mode \in [Threads -> LabelModes] :
          local = [t \in Threads |->
                      [username   |-> username[t],
                       label_mode |-> label_mode[t],
                       request    |-> "",
                       id         |-> <<None, None>>,
                       match      |-> "",
                       time       |-> 0,
                       df         |-> << >>,
                       sent       |-> NoFile]]
    /\ _states = << >>
    /\ instances = << >>
    /\ creation = << >>

NextThreads ==
    \E t \in Threads :
        \/ request_show_candidate_pair(t)
        \/ \E match \in MatchInputs : add_result_record(t, match)
        \/ add_result_append(t)
        \/ store_results_frame(t)
        \/ store_results_open(t)
        \/ store_results_write(t)
        \/ request_respond(t)
        \/ store_aggregated_results_frame(t)
        \/ store_aggregated_results_counts(t)
        \/ store_aggregated_results_open(t)
        \/ store_aggregated_results_write(t)
        \/ download_results_send_file(t)

SpecThreads == InitThreads /\ [][NextThreads]_vars

---------------------------------------------------------------------------
(* StateHandler (src/geo_matcher/state_handler.py).  Every request thread   *)
(* calls StateHandler.get(dataset) through _get_state; a State object is    *)
(* the number of its construction for the dataset, 0 is no State.           *)

\* largest number of get calls of one thread
MaxGets == 2

\* StateHandler.datasets
Datasets == {"d1", "d2"}

\* get: "if dataset not in self._states" (state_handler.py:40)
get_check(t, dataset) ==
    /\ pc[t] = "idle"
    /\ Len(local[t].got) < MaxGets
    /\ local' = [local EXCEPT ![t].dataset = dataset]
    /\ pc' = [pc EXCEPT ![t] = IF _states[dataset] = 0 THEN "register" ELSE "return"]
    /\ UNCHANGED <<results, file, now, annotation_redundancy, consensus_margin, last,
                   response, export, _states, instances, creation>>

\* register: State(...) is constructed (state_handler.py:29-34)
register_construct(t) ==
    /\ pc[t] = "register"
    /\ instances' = [instances EXCEPT ![local[t].dataset] = @ + 1]
    /\ local' = [local EXCEPT ![t].state = instances'[local[t].dataset]]
    /\ pc' = [pc EXCEPT ![t] = "assign"]
    /\ UNCHANGED <<results, file, now, annotation_redundancy, consensus_margin, last,
                   response, export, _states, creation>>

\* register: self._states[dataset] = the new State (state_handler.py:29)
register_assign(t) ==
    /\ pc[t] = "assign"
    /\ _states' = [_states EXCEPT ![local[t].dataset] = local[t].state]
    /\ pc' = [pc EXCEPT ![t] = "return"]
    /\ UNCHANGED <<results, file, now, annotation_redundancy, consensus_margin, last,
                   response, export, local, instances, creation>>

\* get: "return self._states[dataset]" (state_handler.py:43)
get_return(t) ==
    /\ pc[t] = "return"
    /\ local' = [local EXCEPT ![t].got =
                    Append(@, <<local[t].dataset, _states[local[t].dataset]>>)]
    /\ pc' = [pc EXCEPT ![t] = "idle"]
    /\ UNCHANGED <<results, file, now, annotation_redundancy, consensus_margin, last,
                   response, export, _states, instances, creation>>

\* StateHandler.__init__: no State is registered
InitHandler ==
    /\ results = << >>
    /\ file = NoFile
    /\ now = 0
    /\ annotation_redundancy \in 0..MaxRedundancyApp
    /\ consensus_margin = consensus_margin_default
    /\ last = [op |-> "__init__", raised |-> None]
    /\ response = NoResponse
    /\ export = NoFile
    /\ pc = [t \in Threads |-> "idle"]
    /\ local = [t \in Threads |-> [dataset |-> "", state |-> 0, got |-> << >>]]
    /\ _states = [d \in Datasets |-> 0]
    /\ instances = [d \in Datasets |-> 0]
    /\ creation = << >>

NextHandler ==
    \E t \in Threads :
        \/ \E dataset \in Datasets : get_check(t, dataset)
        \/ register_construct(t)
        \/ register_assign(t)
        \/ get_return(t)

SpecHandler == InitHandler /\ [][NextHandler]_vars

---------------------------------------------------------------------------
(* A labeling session (src/geo_matcher/app.py).  After /start-session the   *)
(* browser of a user alternates GET /show-pair, which shows the next pair   *)
(* of the session's label mode, and POST /store-label with the decision for *)
(* the pair shown, until /show-pair answers with the completion page.  The  *)
(* log the session starts on holds what other users have stored before;     *)
(* during the session no other request is served.                           *)

\* largest number of records stored before the session starts
MaxPrior == 1
\* largest number of decisions of the session
MaxDecisions == 5

\* the users who have stored records before the session starts
PriorUsers == {"bob", "carol"}

\* POST /start-session: the session keeps the username and the label mode
start_session(username, label_mode) ==
    /\ pc = "start"
    /\ pc' = "show"
    /\ local' = [username |-> username, label_mode |-> label_mode,
                 shown |-> <<None, None>>, served |-> << >>]
    /\ response' = [url |-> "/start-session", status |-> 200, page |-> ""]
    /\ UNCHANGED <<results, file, now, annotation_redundancy, consensus_margin, last,
                   export, _states, instances, creation>>

\* POST /store-label of another user before the session starts
prior_store_label ==
    /\ pc = "start"
    /\ Len(results) < MaxPrior
    /\ \E u \in PriorUsers, p \in Range(PairUniverse), m \in Labels :
            store_label(u, p[1], p[2], m)
    /\ UNCHANGED thread_vars

\* GET /show-pair of the session: the pair shown is get_next_pair of the
\* session's mode and user
session_show_candidate_pair ==
    /\ pc = "show"
    /\ show_candidate_pair(local.username, local.label_mode, None, None)
    /\ LET id == get_next_pair(results, annotation_redundancy, consensus_margin,
                               local.label_mode, local.username)
       IN  IF id[1] = None
           THEN /\ pc' = "success"
                /\ local' = [local EXCEPT !.shown = id]
           ELSE /\ pc' = IF valid_pair(id[1], id[2]) THEN "label" ELSE "not found"
                /\ local' = [local EXCEPT !.shown = id, !.served = Append(@, id)]
    /\ UNCHANGED <<export, _states, instances, creation>>

\* POST /store-label of the session: a valid decision for the pair shown
session_store_label ==
    /\ pc = "label"
    /\ Len(local.served) <= MaxDecisions
    /\ \E m \in Labels :
            store_label(local.username, local.shown[1], local.shown[2], m)
    /\ pc' = "show"
    /\ UNCHANGED <<local, export, _states, instances, creation>>

InitSession ==
    /\ results = << >>
    /\ file = NoFile
    /\ now = 0
    /\ annotation_redundancy \in 0..MaxRedundancy
    /\ consensus_margin \in 0..MaxMargin
    /\ last = [op |-> "__init__", raised |-> None]
    /\ response = NoResponse
    /\ export = NoFile
    /\ pc = "start"
    /\ local = [username |-> None, label_mode |-> None,
                shown |-> <<None, None>>, served |-> << >>]
    /\ _states = << >>
    /\ instances = << >>
    /\ creation = << >>

NextSession ==
    \/ prior_store_label
    \/ \E lm \in LabelModes : start_session("alice", lm)
    \/ session_show_candidate_pair
    \/ session_store_label

SpecSession == InitSession /\ [][NextSession]_vars

---------------------------------------------------------------------------
(* Candidate pair generation (src/geo_matcher/dataset.py).                  *)
(* create_candidate_pairs_dataset runs once, single-threaded, over two      *)
(* GeoDataFrames.  A GeoDataFrame is a sequence of rows [id, geometry]; a   *)
(* footprint is an interval [lo, hi] of a street line, its area is its      *)
(* length, two footprints that only touch intersect with area 0.  A table   *)
(* of pairs is a sequence of rows <<id_existing, id_new>>.                  *)

\* largest number of buildings of a dataset
MaxBuildings == 2
\* largest coordinate of a footprint
MaxCoord == 4
\* largest distance cap given with --max-distance
MaxDistance == 1
\* max_distance is None: no distance cap
NoCap == -1
\* tolerance of _determine_overlapping_candidate_pairs, in percent (0.01)
tolerance == 1

Min(a, b) == IF a < b THEN a ELSE b
Max(a, b) == IF a > b THEN a ELSE b

\* the footprints: intervals of positive length
Footprints == {g \in [lo : 0..MaxCoord, hi : 0..MaxCoord] : g.lo < g.hi}

\* the datasets after _ensure_unique_index: the ids are "A-<i>" and "B-<i>"
GeoDataFrames(prefix) ==
    UNION {{[i \in 1..n |-> [id |-> <<prefix, i>>, geometry |-> f[i]]] :
                f \in [1..n -> Footprints]} : n \in 0..MaxBuildings}

\* gdf.index
index(gdf) == {gdf[i].id : i \in 1..Len(gdf)}

\* gdf.drop(idx)
drop(gdf, idx) == LET kept(r) == r.id \notin idx IN SelectSeq(gdf, kept)

\* shapely: area, area of the intersection, distance, the predicate "intersects"
area(g) == g.hi - g.lo
intersection_area(g, h) == Max(0, Min(g.hi, h.hi) - Max(g.lo, h.lo))
distance(g, h) == Max(0, Max(h.lo - g.hi, g.lo - h.hi))
intersects(g, h) == distance(g, h) = 0

\* spatial.symmetrical_pairwise_relative_overlap of one pair: the fraction
\* intersection area / smaller area as <<numerator, denominator>>
symmetrical_pairwise_relative_overlap(g, h) ==
    <<intersection_area(g, h), Min(area(g), area(h))>>

\* fraction o is greater than fraction q
Greater(o, q) == o[1] * q[2] > q[1] * o[2]

\* spatial.overlapping: gdf1.sindex.query(gdf2.geometry, predicate="intersects"),
\* the hits in the order of the queried geometries of gdf2
overlapping(gdf1, gdf2) ==
    LET n1 == Len(gdf1)
        all == [k \in 1..(n1 * Len(gdf2)) |->
                    <<((k - 1) % n1) + 1, ((k - 1) \div n1) + 1>>]
        hit(ij) == intersects(gdf1[ij[1]].geometry, gdf2[ij[2]].geometry)
    IN  SelectSeq(all, hit)

\* the frame "pairs" of _determine_overlapping_candidate_pairs: the
\* intersecting pairs whose overlap is above the tolerance
overlap_pairs(gdf1, gdf2) ==
    LET hits == overlapping(gdf1, gdf2)
        row(ij) == [idx1 |-> gdf1[ij[1]].id, idx2 |-> gdf2[ij[2]].id,
                    overlap |-> symmetrical_pairwise_relative_overlap(
                                    gdf1[ij[1]].geometry, gdf2[ij[2]].geometry)]
        rows == [k \in 1..Len(hits) |-> row(hits[k])]
        mask(r) == r.overlap[1] * 100 > tolerance * r.overlap[2]
    IN  SelectSeq(rows, mask)

\* sort_values("overlap", ascending=False): the sort is not stable, rows of
\* equal overlap come in any order
sort_values(df) ==
    {[k \in 1..Len(df) |-> df[perm[k]]] :
        perm \in {p \in Permutations(1..Len(df)) :
                    \A k \in 1..(Len(df) - 1) :
                        ~ Greater(df[p[k + 1]].overlap, df[p[k]].overlap)}}

\* drop_duplicates() of a table of pairs: the first of equal rows is kept
drop_duplicates_pairs(df) ==
    Take(df, {i \in 1..Len(df) : \A j \in 1..(i - 1) : df[j] # df[i]})

\* variant of _determine_overlapping_candidate_pairs that keeps the best pair
\* of the buildings of gdf1 only
_determine_overlapping_candidate_pairs_best_for_gdf1(gdf1, gdf2) ==
    {LET max_idx1 == Take(sorted, {k \in 1..Len(sorted) :
                            \A j \in 1..(k - 1) : sorted[j].idx1 # sorted[k].idx1})
     IN  drop_duplicates_pairs([k \in 1..Len(max_idx1) |->
                                    <<max_idx1[k].idx1, max_idx1[k].idx2>>]) :
        sorted \in sort_values(overlap_pairs(gdf1, gdf2))}

\* _determine_overlapping_candidate_pairs: the tables it can return
_determine_overlapping_candidate_pairs(gdf1, gdf2) ==
    {LET max_idx1 == Take(sorted, {k \in 1..Len(sorted) :
                            \A j \in 1..(k - 1) : sorted[j].idx1 # sorted[k].idx1})
         max_idx2 == Take(sorted, {k \in 1..Len(sorted) :
                            \A j \in 1..(k - 1) : sorted[j].idx2 # sorted[k].idx2})
         both == max_idx1 \o max_idx2
     IN  drop_duplicates_pairs([k \in 1..Len(both) |-> <<both[k].idx1, both[k].idx2>>]) :
        sorted \in sort_values(overlap_pairs(gdf1, gdf2))}

\* variant of nearest_neighbor that searches within MaxDistance when no cap is given
nearest_neighbor_always_capped(gdf1, gdf2, max_distance) ==
    LET cap == IF max_distance = NoCap THEN MaxDistance ELSE max_distance
        d(i, j) == distance(gdf1[i].geometry, gdf2[j].geometry)
        nearest(i) == {j \in 1..Len(gdf2) :
                        /\ \A k \in 1..Len(gdf2) : d(i, j) <= d(i, k)
                        /\ d(i, j) <= cap}
        found == {i \in 1..Len(gdf1) : nearest(i) # {}}
    IN  {Take([i \in 1..Len(gdf1) |-> <<gdf1[i].id, gdf2[Max(1, f[i])].id>>], found) :
            f \in {g \in [1..Len(gdf1) -> 0..Len(gdf2)] :
                    \A i \in 1..Len(gdf1) :
                        IF i \in found THEN g[i] \in nearest(i) ELSE g[i] = 0}}

\* variant of nearest_neighbor that searches without the cap
nearest_neighbor_uncapped(gdf1, gdf2, max_distance) ==
    LET d(i, j) == distance(gdf1[i].geometry, gdf2[j].geometry)
        nearest(i) == {j \in 1..Len(gdf2) : \A k \in 1..Len(gdf2) : d(i, j) <= d(i, k)}
        found == {i \in 1..Len(gdf1) : nearest(i) # {}}
    IN  {Take([i \in 1..Len(gdf1) |-> <<gdf1[i].id, gdf2[Max(1, f[i])].id>>], found) :
            f \in {g \in [1..Len(gdf1) -> 0..Len(gdf2)] :
                    \A i \in 1..Len(gdf1) :
                        IF i \in found THEN g[i] \in nearest(i) ELSE g[i] = 0}}

\* spatial.nearest_neighbor: gdf2.sindex.nearest(gdf1.geometry, return_all=False,
\* max_distance): one nearest building of gdf2 for each building of gdf1 that
\* has one within the cap, any of them when several are equally near; the
\* results it can return, as rows <<id of gdf1, id of gdf2>>
nearest_neighbor(gdf1, gdf2, max_distance) ==
    LET d(i, j) == distance(gdf1[i].geometry, gdf2[j].geometry)
        nearest(i) == {j \in 1..Len(gdf2) :
                        /\ \A k \in 1..Len(gdf2) : d(i, j) <= d(i, k)
                        /\ max_distance # NoCap => d(i, j) <= max_distance}
        found == {i \in 1..Len(gdf1) : nearest(i) # {}}
    IN  {Take([i \in 1..Len(gdf1) |-> <<gdf1[i].id, gdf2[Max(1, f[i])].id>>], found) :
            f \in {g \in [1..Len(gdf1) -> 0..Len(gdf2)] :
                    \A i \in 1..Len(gdf1) :
                        IF i \in found THEN g[i] \in nearest(i) ELSE g[i] = 0}}

\* the rows of a table of pairs with the two columns exchanged
swapped(df) == [k \in 1..Len(df) |-> <<df[k][2], df[k][1]>>]

\* pairs["id_existing"].unique() and pairs["id_new"].unique()
id_existing(df) == {df[k][1] : k \in 1..Len(df)}
id_new(df) == {df[k][2] : k \in 1..Len(df)}

\* spatial.h3_index: the grid cell of the centroid of a footprint; the cells
\* are the unit intervals of the line
h3_index(g) == (g.lo + g.hi) \div 2

\* the column gdf["neighborhood"] of a row (dataset.py:48-49)
neighborhood(r) == h3_index(r.geometry)

\* spatial.h3_disk: the cells within k grid steps of the given cells
h3_disk(h3_indices, k) == {c + d : c \in h3_indices, d \in (0 - k)..k}

\* gdf[gdf["neighborhood"].isin(cells)]
in_neighborhoods(gdf, cells) ==
    LET kept(r) == neighborhood(r) \in cells IN SelectSeq(gdf, kept)

\* the row of gdf with the index label id_
row_of(gdf, id_) == gdf[CHOOSE i \in 1..Len(gdf) : gdf[i].id = id_]

\* Series.unique(): the values in the order of their first occurrence
unique(s) == Take(s, {i \in 1..Len(s) : \A j \in 1..(i - 1) : s[j] # s[i]})

\* gdf.loc[labels]: the rows in the order of the labels
loc(gdf, labels) == [k \in 1..Len(labels) |-> row_of(gdf, labels[k])]

\* the columns pairs["id_existing"] and pairs["id_new"]
column(df, c) == [k \in 1..Len(df) |-> df[k][c]]

\* _sample_neighborhoods: n of the neighborhoods of gdf (all of them if there
\* are fewer), every neighborhood has a positive weight; the samples it can draw
_sample_neighborhoods(gdf, n) ==
    LET probs == {neighborhood(gdf[i]) : i \in 1..Len(gdf)}
    IN  {S \in SUBSET probs : Cardinality(S) = Min(n, Cardinality(probs))}

\* _filter_candidate_pairs_by_neighborhood
_filter_candidate_pairs_by_neighborhood(pairs_, gdf, neighborhoods) ==
    LET kept(p) == neighborhood(row_of(gdf, p[2])) \in neighborhoods
    IN  SelectSeq(pairs_, kept)

\* _remove_non_candidates: the two datasets it returns
_remove_non_candidates(pairs_, gdf1, gdf2) ==
    <<loc(gdf1, unique(column(pairs_, 1))), loc(gdf2, unique(column(pairs_, 2)))>>

\* _filter_candidate_pairs_by_overlap; the range is in percent
_filter_candidate_pairs_by_overlap(pairs_, gdf1, gdf2, overlap_range) ==
    LET mask(p) ==
            LET overlap == symmetrical_pairwise_relative_overlap(
                                row_of(gdf1, p[1]).geometry, row_of(gdf2, p[2]).geometry)
            IN  /\ overlap[1] * 100 >= overlap_range[1] * overlap[2]
                /\ overlap[1] * 100 <= overlap_range[2] * overlap[2]
    IN  SelectSeq(pairs_, mask)

\* spatial.shape_similarity of one pair: 1 - the average percentage difference
\* of the shape features, relative to the second footprint; the shape features
\* of an interval are its length; the fraction as <<numerator, denominator>>
shape_similarity(g, h) == <<area(h) - Abs(area(g) - area(h)), area(h)>>

\* _filter_candidate_pairs_by_shape_similarity; the range is in percent
_filter_candidate_pairs_by_shape_similarity(candidate_pairs, gdf1, gdf2, similarity_range) ==
    LET mask(p) ==
            LET similarity == shape_similarity(
                                row_of(gdf1, p[1]).geometry, row_of(gdf2, p[2]).geometry)
            IN  /\ similarity[1] * 100 >= similarity_range[1] * similarity[2]
                /\ similarity[1] * 100 <= similarity_range[2] * similarity[2]
    IN  SelectSeq(candidate_pairs, mask)

\* spatial.relative_overlap, numerator: the sum of the areas of the
\* intersections of g with the first k footprints of gdf
RECURSIVE intersection_area_sum(_, _, _)
intersection_area_sum(g, gdf, k) ==
    IF k = 0 THEN 0
    ELSE intersection_area(g, gdf[k].geometry) + intersection_area_sum(g, gdf, k - 1)

\* _filter_candidate_pairs_by_overlap_of_others; the threshold is in percent
_filter_candidate_pairs_by_overlap_of_others(pairs_, gdf1, gdf2, max_overlap_others) ==
    LET mask(p) ==
            LET g == row_of(gdf1, p[1]).geometry
                h == row_of(gdf2, p[2]).geometry
                overlap_others_existing ==
                    intersection_area_sum(g, gdf2, Len(gdf2)) - intersection_area(g, h)
                overlap_others_new ==
                    intersection_area_sum(h, gdf1, Len(gdf1)) - intersection_area(h, g)
            IN  /\ overlap_others_existing * 100 < max_overlap_others * area(g)
                /\ overlap_others_new * 100 < max_overlap_others * area(h)
    IN  SelectSeq(pairs_, mask)

\* _sample_candidate_pairs: pairs.sample(n=n, random_state=42), n rows of the
\* table (all of them if there are fewer); the samples it can draw, their
\* rows in the order of the table
_sample_candidate_pairs(pairs_, n) ==
    {Take(pairs_, S) : S \in {T \in SUBSET (1..Len(pairs_)) :
                                Cardinality(T) = Min(n, Len(pairs_))}}

\* variant of _drop_buildings_elsewhere that keeps the neighborhoods of the
\* new buildings of the pairs only
_drop_buildings_elsewhere_new_only(gdf1, gdf2, pairs_) ==
    LET nbh == {neighborhood(row_of(gdf2, pairs_[k][2])) : k \in 1..Len(pairs_)}
    IN  <<in_neighborhoods(gdf1, nbh), in_neighborhoods(gdf2, nbh)>>

\* _drop_buildings_elsewhere: the two datasets it returns
_drop_buildings_elsewhere(gdf1, gdf2, pairs_) ==
    LET nbh1 == {neighborhood(row_of(gdf1, pairs_[k][1])) : k \in 1..Len(pairs_)}
        nbh2 == {neighborhood(row_of(gdf2, pairs_[k][2])) : k \in 1..Len(pairs_)}
        nbh_w_neighbors == h3_disk(nbh1 \cup nbh2, 1)
    IN  <<in_neighborhoods(gdf1, nbh_w_neighbors), in_neighborhoods(gdf2, nbh_w_neighbors)>>

\* CandidatePairs._validate_inputs, the two checks of the ids of the pairs:
\* the exception it raises
_validate_inputs(dataset_a, dataset_b, pairs_) ==
    IF \E k \in 1..Len(pairs_) : pairs_[k][1] \notin index(dataset_a)
    THEN "ValueError: IDs not included in Dataset A"
    ELSE IF \E k \in 1..Len(pairs_) : pairs_[k][2] \notin index(dataset_b)
         THEN "ValueError: IDs not included in Dataset B"
         ELSE None

\* create_candidate_pairs_dataset, lines 51-52: the neighborhoods are sampled
\* when n_neighborhoods is given
sample_neighborhoods ==
    /\ creation.pc = "neighborhoods"
    /\ IF creation.n_neighborhoods # 0
       THEN \E neighborhoods \in _sample_neighborhoods(creation.gdf2, creation.n_neighborhoods) :
                creation' = [creation EXCEPT !.neighborhoods = neighborhoods,
                                             !.pc = "overlapping"]
       ELSE creation' = [creation EXCEPT !.pc = "overlapping"]
    /\ UNCHANGED <<results, file, now, annotation_redundancy, consensus_margin, last,
                   response, export, pc, local, _states, instances>>

\* the dataset _identify_candidate_pairs is called with: the buildings in and
\* around the sampled neighborhoods (dataset.py:179-183), or all (dataset.py:56)
identified(gdf) ==
    IF creation.n_neighborhoods # 0
    THEN in_neighborhoods(gdf, h3_disk(creation.neighborhoods, 1))
    ELSE gdf

\* _identify_candidate_pairs, lines 147-148: the overlapping pairs
identify_overlapping ==
    /\ creation.pc = "overlapping"
    /\ \E max_pairs \in _determine_overlapping_candidate_pairs(
                            identified(creation.gdf1), identified(creation.gdf2)) :
        creation' = [creation EXCEPT !.idx = max_pairs, !.pairs = max_pairs,
                                     !.pc = "nearest"]
    /\ UNCHANGED <<results, file, now, annotation_redundancy, consensus_margin, last,
                   response, export, pc, local, _states, instances>>

\* what follows _identify_candidate_pairs when the neighborhoods are sampled:
\* _filter_candidate_pairs_by_neighborhood and _remove_non_candidates
\* (dataset.py:184, 54); the record of the run with the pairs found
identified_pairs(found) ==
    IF creation.n_neighborhoods # 0
    THEN LET kept == _filter_candidate_pairs_by_neighborhood(
                        found, creation.gdf2, creation.neighborhoods)
             gdfs == _remove_non_candidates(kept, creation.gdf1, creation.gdf2)
         IN  [creation EXCEPT !.pairs = kept, !.gdf1 = gdfs[1], !.gdf2 = gdfs[2],
                    !.pc = IF creation.max_distance = NoCap THEN "verify" ELSE "filter"]
    ELSE [creation EXCEPT !.pairs = found,
                    !.pc = IF creation.max_distance = NoCap THEN "verify" ELSE "filter"]

\* _identify_candidate_pairs, lines 150-167: the nearest building of every
\* building without an overlapping pair, then drop_duplicates
identify_nearest ==
    /\ creation.pc = "nearest"
    /\ LET gdf1 == identified(creation.gdf1)
           gdf2 == identified(creation.gdf2)
           max_distance == creation.max_distance
           gdf1_non_intersect == drop(gdf1, id_existing(creation.pairs))
           gdf2_non_intersect == drop(gdf2, id_new(creation.pairs))
       IN  IF max_distance # 0 /\ Len(gdf1) > 0 /\ Len(gdf2) > 0
           THEN \E nearest_a \in nearest_neighbor(gdf1_non_intersect, gdf2, max_distance),
                   nearest_b \in nearest_neighbor(gdf2_non_intersect, gdf1, max_distance) :
                    creation' = identified_pairs(drop_duplicates_pairs(
                                    creation.pairs \o nearest_a \o swapped(nearest_b)))
           ELSE creation' = identified_pairs(drop_duplicates_pairs(creation.pairs))
    /\ UNCHANGED <<results, file, now, annotation_redundancy, consensus_margin, last,
                   response, export, pc, local, _states, instances>>

\* _verify_exhaustive_pairs, called when max_distance is None
_verify_exhaustive_pairs ==
    /\ creation.pc = "verify"
    /\ creation' = [creation EXCEPT
            !.raised = IF \/ Len(creation.gdf1) # Cardinality(id_existing(creation.pairs))
                          \/ Len(creation.gdf2) # Cardinality(id_new(creation.pairs))
                       THEN "ValueError" ELSE None,
            !.pc = IF \/ Len(creation.gdf1) # Cardinality(id_existing(creation.pairs))
                      \/ Len(creation.gdf2) # Cardinality(id_new(creation.pairs))
                   THEN "raised" ELSE "filter"]
    /\ UNCHANGED <<results, file, now, annotation_redundancy, consensus_margin, last,
                   response, export, pc, local, _states, instances>>

\* create_candidate_pairs_dataset, lines 61-68: the filters that are given
filter_candidate_pairs ==
    /\ creation.pc = "filter"
    /\ LET gdf1 == creation.gdf1
           gdf2 == creation.gdf2
           by_overlap ==
                IF creation.overlap_range # << >>
                THEN _filter_candidate_pairs_by_overlap(
                        creation.pairs, gdf1, gdf2, creation.overlap_range)
                ELSE creation.pairs
           by_similarity ==
                IF creation.similarity_range # << >>
                THEN _filter_candidate_pairs_by_shape_similarity(
                        by_overlap, gdf1, gdf2, creation.similarity_range)
                ELSE by_overlap
           by_others ==
                IF creation.max_overlap_others # 0
                THEN _filter_candidate_pairs_by_overlap_of_others(
                        by_similarity, gdf1, gdf2, creation.max_overlap_others)
                ELSE by_similarity
       IN  creation' = [creation EXCEPT !.pairs = by_others, !.pc = "sample"]
    /\ UNCHANGED <<results, file, now, annotation_redundancy, consensus_margin, last,
                   response, export, pc, local, _states, instances>>

\* create_candidate_pairs_dataset, lines 70-72: when n is given, the pairs are
\* sampled and the buildings elsewhere are dropped
sample_candidate_pairs ==
    /\ creation.pc = "sample"
    /\ IF creation.n # 0
       THEN \E sample \in _sample_candidate_pairs(creation.pairs, creation.n) :
                LET gdfs == _drop_buildings_elsewhere(creation.gdf1, creation.gdf2, sample)
                IN  creation' = [creation EXCEPT !.pairs = sample, !.gdf1 = gdfs[1],
                                                 !.gdf2 = gdfs[2], !.pc = "return"]
       ELSE creation' = [creation EXCEPT !.pc = "return"]
    /\ UNCHANGED <<results, file, now, annotation_redundancy, consensus_margin, last,
                   response, export, pc, local, _states, instances>>

\* create_candidate_pairs_dataset, lines 74-78: the container is constructed
\* from the datasets and the pairs and returned, unless its validation raises
return_candidate_pairs ==
    /\ creation.pc = "return"
    /\ LET raised == _validate_inputs(creation.gdf1, creation.gdf2, creation.pairs)
       IN  creation' = [creation EXCEPT !.raised = raised,
                            !.pc = IF raised = None THEN "done" ELSE "raised"]
    /\ UNCHANGED <<results, file, now, annotation_redundancy, consensus_margin, last,
                   response, export, pc, local, _states, instances>>

\* the State, the files, the threads and the StateHandler play no part in
\* the creation of a dataset
NoLabeling ==
    /\ results = << >>
    /\ file = NoFile
    /\ now = 0
    /\ annotation_redundancy = 0
    /\ consensus_margin = consensus_margin_default
    /\ last = [op |-> "__init__", raised |-> None]
    /\ response = NoResponse
    /\ export = NoFile
    /\ pc = << >>
    /\ local = << >>
    /\ _states = << >>
    /\ instances = << >>

\* the run of create_candidate_pairs_dataset that starts with the datasets
\* a and b and the given options
called(a, b, max_distance, overlap_range, similarity_range, max_overlap_others, n, n_neighborhoods) ==
    [gdf_path1 |-> a, gdf_path2 |-> b, gdf1 |-> a, gdf2 |-> b,
     max_distance |-> max_distance, overlap_range |-> overlap_range,
     similarity_range |-> similarity_range, max_overlap_others |-> max_overlap_others,
     n |-> n, n_neighborhoods |-> n_neighborhoods,
     neighborhoods |-> {}, idx |-> << >>, pairs |-> << >>, raised |-> None,
     pc |-> "neighborhoods"]

\* create_candidate_pairs_dataset is called with two datasets and a distance
\* cap, without filters and without sampling
InitDataset ==
    /\ NoLabeling
    /\ \E a \in GeoDataFrames("A"), b \in GeoDataFrames("B"),
          max_distance \in {NoCap} \cup 0..MaxDistance :
            creation = called(a, b, max_distance, << >>, << >>, 0, 0, 0)

NextDataset ==
    \/ sample_neighborhoods
    \/ identify_overlapping
    \/ identify_nearest
    \/ _verify_exhaustive_pairs
    \/ filter_candidate_pairs
    \/ sample_candidate_pairs
    \/ return_candidate_pairs

SpecDataset == InitDataset /\ [][NextDataset]_vars

\* largest number of pairs asked for with --sample-size
MaxSample == 1
\* largest number of neighborhoods asked for with --n-neighborhoods
MaxNeighborhoods == 1
\* the overlap ranges, similarity ranges and thresholds of overlap by others
\* the options are tried with, in percent; << >> and 0 are "not given"
OverlapRanges == {<< >>, <<50, 100>>}
SimilarityRanges == {<< >>, <<50, 100>>}
MaxOverlapOthers == {0, 50}

\* the datasets the options are tried on: footprints left of MaxCoord
GeoDataFramesOptions(prefix) ==
    {gdf \in GeoDataFrames(prefix) : \A i \in 1..Len(gdf) : gdf[i].geometry.hi < MaxCoord}

\* create_candidate_pairs_dataset is called with two datasets and any options
InitOptions ==
    /\ NoLabeling
    /\ \E a \in GeoDataFramesOptions("A"), b \in GeoDataFramesOptions("B"),
          max_distance \in {NoCap, MaxDistance},
          overlap_range \in OverlapRanges, similarity_range \in SimilarityRanges,
          max_overlap_others \in MaxOverlapOthers,
          n \in 0..MaxSample, n_neighborhoods \in 0..MaxNeighborhoods :
            creation = called(a, b, max_distance, overlap_range, similarity_range,
                              max_overlap_others, n, n_neighborhoods)

SpecOptions == InitOptions /\ [][NextDataset]_vars

---------------------------------------------------------------------------
(* Vocabulary of the properties, defined on the log itself. *)

\* user holds a record for pair p: some record of the log has that key
HoldsRecord(log, user, p) ==
    \E i \in 1..Len(log) : log[i].username = user /\ Pair(log[i]) = p

\* position of the record appended last for (p, user)
LastIndex(log, user, p) ==
    LET S == {i \in 1..Len(log) : log[i].username = user /\ Pair(log[i]) = p}
    IN  CHOOSE i \in S : \A j \in S : j <= i

\* the match of the user's authoritative record for p, "none" without one
Vote(log, user, p) ==
    IF HoldsRecord(log, user, p) THEN log[LastIndex(log, user, p)].match ELSE "none"

\* the users whose authoritative record for p has the match m
Voters(log, p, m) == {u \in Users : Vote(log, u, p) = m}

\* number of distinct users with an authoritative yes or no record for p
Labelers(log, p) == Cardinality(Voters(log, p, "yes") \cup Voters(log, p, "no"))

---------------------------------------------------------------------------
(* Properties. *)

\* C1: last write wins per user.  The deduplicated record set (unsure
\* included) holds exactly one record for every (id_existing, id_new,
\* username) of the log, namely the record appended last for that key, and
\* no record of any other key.
C1_LastWriteWins ==
    LET uniq == _unique_results(results, TRUE)
    IN  /\ \A u \in Users, p \in Range(PairUniverse) :
              HoldsRecord(results, u, p) =>
                  LET rows == {i \in 1..Len(uniq) : uniq[i].username = u /\ Pair(uniq[i]) = p}
                  IN  /\ Cardinality(rows) = 1
                      /\ \A i \in rows : uniq[i] = results[LastIndex(results, u, p)]
        /\ \A i \in 1..Len(uniq) : HoldsRecord(results, uniq[i].username, Pair(uniq[i]))

\* a user relabeled a pair with a different match value
C1_Witness ==
    \E i, j \in 1..Len(results) :
        /\ i < j
        /\ results[i].username = results[j].username
        /\ Pair(results[i]) = Pair(results[j])
        /\ results[i].match # results[j].match

\* C2: add_result with a match outside {yes, no, unsure} raises ValueError
\* and leaves the log and the results file as they were; every record of a
\* reachable log has its match in {yes, no, unsure}.
C2_InvalidMatchRejected ==
    /\ [](\A i \in 1..Len(results) : results[i].match \in Labels)
    /\ [][\A p \in Range(PairUniverse), u \in Users, m \in MatchInputs \ Labels :
            add_result(p[1], p[2], m, u) =>
                /\ last'.op = "add_result"
                /\ last'.raised = "ValueError"
                /\ results' = results
                /\ file' = file]_vars

\* add_result was refused on a State that has a log and a results file
C2_Witness ==
    /\ last = [op |-> "add_result", raised |-> "ValueError"]
    /\ Len(results) >= 1
    /\ file.exists

\* C3: add_bulk_results is all-or-nothing.  A batch with a row whose match is
\* outside {yes, no, unsure} raises ValueError and leaves the log and the
\* results file as they were; any other batch is appended row by row, in
\* order, behind the unchanged log, and every row is in the results file.
C3_BulkAllOrNothing ==
    [][\A df \in Batches :
        add_bulk_results(df) =>
            IF \E i \in 1..Len(df) : df[i].match \notin Labels
            THEN /\ last'.raised = "ValueError"
                 /\ results' = results
                 /\ file' = file
            ELSE /\ last'.raised = None
                 /\ Len(results') = Len(results) + Len(df)
                 /\ SubSeq(results', 1, Len(results)) = results
                 /\ \A i \in 1..Len(df) :
                        LET r == results'[Len(results) + i]
                        IN  /\ r.neighborhood = df[i].neighborhood
                            /\ Pair(r) = Pair(df[i])
                            /\ r.match = df[i].match
                            /\ r.username = df[i].username
                            /\ \E k \in 1..Len(file'.rows) :
                                   /\ Pair(file'.rows[k]) = Pair(r)
                                   /\ file'.rows[k].username = r.username
                                   /\ file'.rows[k].match = r.match
                                   /\ file'.rows[k].neighborhood = r.neighborhood]_vars

\* a batch was refused on a State that has a log and a results file
C3_Witness ==
    /\ last = [op |-> "add_bulk_results", raised |-> "ValueError"]
    /\ Len(results) >= 1
    /\ file.exists

\* C4: a candidate pair is in the unlabeled set if and only if no user's
\* authoritative record for it has a match other than unsure.
C4_UnlabeledIffNoAuthoritativeLabel ==
    \A p \in Range(pairs) :
        (p \in Range(_unlabeled_pairs(results)))
            <=> (\A u \in Users : Vote(results, u, p) \in {"none", "unsure"})

\* C5: under "unlabeled" every candidate pair with fewer than R+1 labelers or
\* with |votes(yes) - votes(no)| < M is in the list served to every user who
\* holds no authoritative record for it.
C5_NoUnresolvedPairDropped ==
    \A p \in Range(pairs), u \in Users :
        (/\ ~ HoldsRecord(results, u, p)
         /\ \/ Labelers(results, p) < annotation_redundancy + 1
            \/ Abs(Cardinality(Voters(results, p, "yes"))
                   - Cardinality(Voters(results, p, "no"))) < consensus_margin)
        => p \in Range(_next_pairs(results, annotation_redundancy, consensus_margin,
                                   "unlabeled", u))

\* C6: a pair with k >= 1 distinct users holding an authoritative yes or no
\* record is insufficiently labeled if and only if k < R + 1; records of one
\* user count once.
C6_Redundancy ==
    \A p \in Range(PairUniverse) :
        Labelers(results, p) >= 1 =>
            ((p \in Range(_insufficiently_labeled_pairs(results, annotation_redundancy)))
                <=> Labelers(results, p) < annotation_redundancy + 1)

\* with R = 1, a pair has two yes/no records by one user and is still
\* insufficiently labeled
C6_Witness ==
    /\ annotation_redundancy = 1
    /\ \E p \in Range(PairUniverse) :
          /\ Labelers(results, p) = 1
          /\ Cardinality({i \in 1..Len(results) :
                            Pair(results[i]) = p /\ results[i].match # "unsure"}) = 2
          /\ p \in Range(_insufficiently_labeled_pairs(results, annotation_redundancy))

\* C7: a pair with an authoritative yes or no record is ambiguously labeled
\* if and only if |#users voting yes - #users voting no| < M; unsure records
\* do not count.
C7_ConsensusMargin ==
    \A p \in Range(PairUniverse) :
        Labelers(results, p) >= 1 =>
            ((p \in Range(_ambiguously_labeled_pairs(results, consensus_margin)))
                <=> Abs(Cardinality(Voters(results, p, "yes"))
                        - Cardinality(Voters(results, p, "no"))) < consensus_margin)

\* with M = 1, one user voted yes and another no on a pair, which is ambiguous
C7_Witness ==
    /\ consensus_margin = 1
    /\ \E p \in Range(PairUniverse) :
          /\ Cardinality(Voters(results, p, "yes")) = 1
          /\ Cardinality(Voters(results, p, "no")) = 1
          /\ p \in Range(_ambiguously_labeled_pairs(results, consensus_margin))

\* C8: under every policy get_next_pair and get_pair_after_next return no
\* pair for which the asking user holds a record, whatever its label.
C8_NeverServesOwnPair ==
    \A lm \in LabelModes, u \in Users :
        \A v \in {get_next_pair(results, annotation_redundancy, consensus_margin, lm, u),
                  get_pair_after_next(results, annotation_redundancy, consensus_margin, lm, u)} :
            v # <<None, None>> => ~ HoldsRecord(results, u, v)

\* a user whose only verdict on some candidate pair is unsure is served
\* another pair
C8_Witness ==
    \E u \in Users, lm \in LabelModes, p \in Range(pairs) :
        /\ Vote(results, u, p) = "unsure"
        /\ get_next_pair(results, annotation_redundancy, consensus_margin, lm, u)
               # <<None, None>>

C10_AllPolicy ==
    \A u \in Users :
        LET served == _next_pairs(results, annotation_redundancy, consensus_margin, "all", u)
        IN  /\ Range(served) = {p \in Range(pairs) : ~ HoldsRecord(results, u, p)}
            /\ Cardinality(Range(served)) = Len(served)

\* a pair other users have labeled, and that "unlabeled" no longer serves,
\* is served under "all"
C10_Witness ==
    \E u \in Users, p \in Range(pairs) :
        /\ \E w \in Users \ {u} : Vote(results, w, p) \in {"yes", "no"}
        /\ p \in Range(_next_pairs(results, annotation_redundancy, consensus_margin, "all", u))
        /\ p \notin Range(_next_pairs(results, annotation_redundancy, consensus_margin,
                                      "unlabeled", u))

\* C11: for every user the pairs served under "cross-validate" are among the
\* pairs served under "unlabeled", and so are the neighborhoods; a pair for
\* which the log holds no record is not served under "cross-validate".
C11_CrossValidateWithinUnlabeled ==
    \A u \in Users :
        /\ Range(_next_pairs(results, annotation_redundancy, consensus_margin,
                              "cross-validate", u))
               \subseteq Range(_next_pairs(results, annotation_redundancy, consensus_margin,
                                           "unlabeled", u))
        /\ \A o \in SetOrders :
               Range(_next_neighborhoods(results, annotation_redundancy, "cross-validate", u, o))
                   \subseteq Range(_next_neighborhoods(results, annotation_redundancy,
                                                       "unlabeled", u, o))
        /\ \A p \in Range(PairUniverse) :
               (\A w \in Users : ~ HoldsRecord(results, w, p))
                   => p \notin Range(_next_pairs(results, annotation_redundancy,
                                                 consensus_margin, "cross-validate", u))

\* a user is served a pair and a neighborhood under "cross-validate", and
\* under "unlabeled" a pair besides that nobody has labeled
C11_Witness ==
    \E u \in Users, o \in SetOrders :
        LET cv == Range(_next_pairs(results, annotation_redundancy, consensus_margin,
                                    "cross-validate", u))
            un == Range(_next_pairs(results, annotation_redundancy, consensus_margin,
                                    "unlabeled", u))
        IN  /\ cv # {}
            /\ \E p \in un \ cv : \A w \in Users : ~ HoldsRecord(results, w, p)
            /\ Len(_next_neighborhoods(results, annotation_redundancy,
                                       "cross-validate", u, o)) >= 1

C13_AggregateCountsAndMajority ==
    LET rows == store_aggregated_results(results, annotation_redundancy, consensus_margin)
        count(r, m) == IF m = "yes" THEN r.count_match
                       ELSE IF m = "no" THEN r.count_no_match
                       ELSE r.count_unsure
    IN  \A k \in 1..Len(rows) :
            LET p == <<rows[k].id_existing, rows[k].id_new>>
            IN  /\ \A m \in Labels : count(rows[k], m) = Cardinality(Voters(results, p, m))
                /\ rows[k].match \in Labels
                /\ \A m \in Labels : count(rows[k], m) <= count(rows[k], rows[k].match)

\* the export has a row for a pair that one user relabeled from yes to no
C13_Witness ==
    LET rows == store_aggregated_results(results, annotation_redundancy, consensus_margin)
    IN  \E k \in 1..Len(rows), u \in Users :
            LET p == <<rows[k].id_existing, rows[k].id_new>>
            IN  /\ Vote(results, u, p) = "no"
                /\ \E i \in 1..Len(results) :
                       /\ results[i].username = u
                       /\ Pair(results[i]) = p
                       /\ results[i].match = "yes"
                /\ rows[k].count_no_match = 1
                /\ rows[k].count_match = 0
                /\ rows[k].match = "no"

\* C15: when add_result or add_bulk_results has returned, the results file
\* holds exactly one row for every (id_existing, id_new, username) of the log,
\* the record appended last for it, unsure records included, and no other row.
C15_FileIsDeduplicatedLog ==
    (last.op \in {"add_result", "add_bulk_results"} /\ last.raised = None) =>
        /\ file.exists
        /\ \A u \in Users, p \in Range(PairUniverse) :
               HoldsRecord(results, u, p) =>
                   LET r == results[LastIndex(results, u, p)]
                       rows == {k \in 1..Len(file.rows) :
                                   file.rows[k].username = u /\ Pair(file.rows[k]) = p}
                   IN  /\ Cardinality(rows) = 1
                       /\ \A k \in rows :
                              /\ file.rows[k].match = r.match
                              /\ file.rows[k].time = r.time
                              /\ file.rows[k].neighborhood =
                                     (IF r.neighborhood = None THEN "" ELSE r.neighborhood)
        /\ \A k \in 1..Len(file.rows) :
               HoldsRecord(results, file.rows[k].username, Pair(file.rows[k]))

\* a mutation returned on a log in which a user relabeled a pair as unsure
C15_Witness ==
    /\ last.raised = None
    /\ last.op \in {"add_result", "add_bulk_results"}
    /\ \E i, j \in 1..Len(results) :
          /\ i < j
          /\ results[i].username = results[j].username
          /\ Pair(results[i]) = Pair(results[j])
          /\ results[i].match = "yes"
          /\ results[j].match = "unsure"
    /\ Len(file.rows) = 1

\* C14: under each of the three policies get_next_pair returns (None, None)
\* exactly when the policy's list for the user is empty and otherwise its
\* first item, get_pair_after_next returns (None, None) exactly when the list
\* has fewer than two items and otherwise its second item, and the
\* neighborhood getters return None likewise; none of them raises.  A
\* show-pair or show-neighborhood request without identifiers whose list is
\* empty stores the results and is answered with the completion page.
C14_ExhaustionIsAValue ==
    /\ [](\A lm \in LabelModes, u \in Users :
            LET list == _next_pairs(results, annotation_redundancy, consensus_margin, lm, u)
                first == get_next_pair(results, annotation_redundancy, consensus_margin, lm, u)
                second == get_pair_after_next(results, annotation_redundancy,
                                              consensus_margin, lm, u)
            IN  /\ first # "ValueError" /\ second # "ValueError"
                /\ (first = <<None, None>>) <=> (Len(list) = 0)
                /\ (second = <<None, None>>) <=> (Len(list) < 2)
                /\ Len(list) >= 1 => first = Head(list)
                /\ Len(list) >= 2 => second = Head(Tail(list))
                /\ \A o \in SetOrders :
                       LET nbh == _next_neighborhoods(results, annotation_redundancy, lm, u, o)
                           h1 == get_next_neighborhood(results, annotation_redundancy, lm, u, o)
                           h2 == get_neighborhood_after_next(results, annotation_redundancy,
                                                             lm, u, o)
                       IN  /\ h1 # "ValueError" /\ h2 # "ValueError"
                           /\ (h1 = None) <=> (Len(nbh) = 0)
                           /\ (h2 = None) <=> (Len(nbh) < 2)
                           /\ Len(nbh) >= 1 => h1 = Head(nbh)
                           /\ Len(nbh) >= 2 => h2 = Head(Tail(nbh)))
    /\ [][\A u \in AppUsers, lm \in LabelModes :
            /\ (/\ response'.url = "/show-pair"
                 /\ Len(_next_pairs(results, annotation_redundancy, consensus_margin,
                                     lm, u)) = 0
                 /\ show_candidate_pair(u, lm, None, None))
                    => /\ response'.status = 200
                       /\ response'.page = "success.html"
                       /\ results' = results
                       /\ file'.exists
                       /\ file'.rows = to_csv(_unique_results(results, TRUE))
            /\ \A o \in SetOrders :
                   (/\ response'.url = "/show-neighborhood"
                    /\ Len(_next_neighborhoods(results, annotation_redundancy, lm, u, o)) = 0
                    /\ show_neighborhood(u, lm, None, o))
                       => /\ response'.status = 200
                          /\ response'.page = "success.html"
                          /\ results' = results
                          /\ file'.exists
                          /\ file'.rows = to_csv(_unique_results(results, TRUE))]_vars

\* a show-pair request was answered with the completion page on a log in
\* which a user has labeled every candidate pair, so that the user's list is
\* empty under "all" as well as under "unlabeled"
C14_Witness ==
    /\ response = [url |-> "/show-pair", status |-> 200, page |-> "success.html"]
    /\ \E u \in AppUsers :
          /\ \A p \in Range(pairs) : Vote(results, u, p) \in {"yes", "no"}
          /\ get_next_pair(results, annotation_redundancy, consensus_margin, "all", u)
                = <<None, None>>
          /\ get_next_pair(results, annotation_redundancy, consensus_margin, "unlabeled", u)
                = <<None, None>>

\* C19: a show-pair request for the identifiers (id_existing, id_new) is
\* answered with 404 when the pair is no row of the candidate pairs table and
\* with the page of the pair when it is one: valid_pair is true of exactly
\* the rows of the table.
C19_UnknownPairNotFound ==
    [][\A u \in AppUsers, lm \in LabelModes, p \in RequestedPairs :
        show_candidate_pair(u, lm, p[1], p[2]) =>
            /\ valid_pair(p[1], p[2]) <=> p \in Range(pairs)
            /\ response'.status = IF p \in Range(pairs) THEN 200 ELSE 404]_vars

\* the add_result call of thread t has accepted its label and appended its
\* record
Appended(t) ==
    /\ local[t].request = "/store-label"
    /\ local[t].match \in Labels
    /\ pc[t] \in {"store_results", "open", "write", "respond", "done"}

C17_AtomicExport ==
    \A t \in Threads :
        (local[t].request = "/download-results" /\ pc[t] = "done") =>
            /\ local[t].sent.header
            /\ \E w \in Threads :
                   /\ local[w].request = "/download-results"
                   /\ pc[w] \in {"send_file", "done"}
                   /\ local[t].sent.rows = local[w].df

\* C18: at most one State is constructed for a dataset, and all calls of
\* get for a dataset return the same State.
C18_OneStatePerDataset ==
    \A d \in Datasets :
        /\ instances[d] <= 1
        /\ \A t1, t2 \in Threads :
               \A i \in 1..Len(local[t1].got), j \in 1..Len(local[t2].got) :
                   (local[t1].got[i][1] = d /\ local[t2].got[j][1] = d)
                       => local[t1].got[i][2] = local[t2].got[j][2]

---------------------------------------------------------------------------
\* C20: coverage.  When both datasets are non-empty and no distance cap is
\* given, then once the pairs are identified every building of dataset A is
\* the id_existing of some pair and every building of dataset B is the
\* id_new of some pair, and the exhaustiveness verification does not raise.
C20_Coverage ==
    (/\ creation.max_distance = NoCap
     /\ Len(creation.gdf1) > 0
     /\ Len(creation.gdf2) > 0)
        => /\ creation.pc \in {"verify", "return", "done"} =>
                /\ \A i \in 1..Len(creation.gdf1) :
                        \E k \in 1..Len(creation.pairs) :
                            creation.pairs[k][1] = creation.gdf1[i].id
                /\ \A j \in 1..Len(creation.gdf2) :
                        \E k \in 1..Len(creation.pairs) :
                            creation.pairs[k][2] = creation.gdf2[j].id
           /\ creation.raised = None
           /\ creation.pc # "raised"

\* the verification has passed for two datasets of which one building has an
\* overlapping partner, one only touches a building of the other dataset,
\* and one is apart from every building of the other dataset
C20_Witness ==
    /\ creation.max_distance = NoCap
    /\ creation.pc = "done"
    /\ creation.raised = None
    /\ \E i \in 1..Len(creation.gdf1), j \in 1..Len(creation.gdf2) :
            intersection_area(creation.gdf1[i].geometry, creation.gdf2[j].geometry) > 0
    /\ \E i \in 1..Len(creation.gdf1) :
            /\ \A j \in 1..Len(creation.gdf2) :
                    intersection_area(creation.gdf1[i].geometry, creation.gdf2[j].geometry) = 0
            /\ \E j \in 1..Len(creation.gdf2) :
                    intersects(creation.gdf1[i].geometry, creation.gdf2[j].geometry)
    /\ \E j \in 1..Len(creation.gdf2) :
            \A i \in 1..Len(creation.gdf1) :
                distance(creation.gdf2[j].geometry, creation.gdf1[i].geometry) > 0

---------------------------------------------------------------------------
\* C21: referential integrity.  Whatever filters, neighborhood sampling and
\* pair sampling are asked for, when the container is constructed every
\* id_existing of the pairs is an index label of dataset A and every id_new
\* an index label of dataset B, and the validation of the container does
\* not raise.
C21_ReferentialIntegrity ==
    /\ creation.pc \in {"return", "done"} =>
            \A k \in 1..Len(creation.pairs) :
                /\ \E i \in 1..Len(creation.gdf1) : creation.gdf1[i].id = creation.pairs[k][1]
                /\ \E j \in 1..Len(creation.gdf2) : creation.gdf2[j].id = creation.pairs[k][2]
    /\ creation.raised \notin {"ValueError: IDs not included in Dataset A",
                               "ValueError: IDs not included in Dataset B"}

\* a container is returned after a filter has removed a pair, a pair was
\* sampled and the pruning has dropped a building
C21_Witness ==
    /\ creation.pc = "done"
    /\ creation.n # 0
    /\ creation.overlap_range # << >>
    /\ Len(creation.pairs) > 0
    /\ Len(creation.gdf1) + Len(creation.gdf2)
            < Len(creation.gdf_path1) + Len(creation.gdf_path2)

---------------------------------------------------------------------------
(* Vocabulary of the properties of the candidate pairs, defined on the      *)
(* footprints of the two datasets the pairs are identified in.              *)

\* the footprints of the i-th building of A and of the j-th building of B
FootprintA(i) == creation.gdf1[i].geometry
FootprintB(j) == creation.gdf2[j].geometry

\* the i-th building of A and the j-th building of B intersect with a
\* two-way area overlap above the tolerance of one percent
Overlap(i, j) ==
    /\ FootprintA(i).lo <= FootprintB(j).hi
    /\ FootprintB(j).lo <= FootprintA(i).hi
    /\ intersection_area(FootprintA(i), FootprintB(j)) * 100
            > Min(area(FootprintA(i)), area(FootprintB(j)))

\* the two-way area overlap of buildings i and j is at least that of i2 and j2
AtLeastTWAO(i, j, i2, j2) ==
    intersection_area(FootprintA(i), FootprintB(j))
            * Min(area(FootprintA(i2)), area(FootprintB(j2)))
        >= intersection_area(FootprintA(i2), FootprintB(j2))
            * Min(area(FootprintA(i)), area(FootprintB(j)))

\* j is a highest-overlap partner of i among the buildings of B, and i one
\* of j among the buildings of A
BestForA(i, j) ==
    Overlap(i, j) /\ \A j2 \in 1..Len(creation.gdf2) : Overlap(i, j2) => AtLeastTWAO(i, j, i, j2)
BestForB(i, j) ==
    Overlap(i, j) /\ \A i2 \in 1..Len(creation.gdf1) : Overlap(i2, j) => AtLeastTWAO(i, j, i2, j)

\* the overlap step has kept the pair of buildings i and j
KeptOverlap(i, j) ==
    \E k \in 1..Len(creation.idx) :
        creation.idx[k] = <<creation.gdf1[i].id, creation.gdf2[j].id>>

\* C22: overlap resolution.  Once the overlapping pairs are determined,
\* every building of A that overlaps some building of B above the tolerance
\* has kept a pair with a highest-overlap partner, every building of B
\* likewise, and every kept pair is a pair of a building with a
\* highest-overlap partner of it.
C22_OverlapResolution ==
    creation.pc \notin {"neighborhoods", "overlapping"} =>
        /\ \A i \in 1..Len(creation.gdf1) :
                (\E j \in 1..Len(creation.gdf2) : Overlap(i, j))
                    => \E j \in 1..Len(creation.gdf2) : BestForA(i, j) /\ KeptOverlap(i, j)
        /\ \A j \in 1..Len(creation.gdf2) :
                (\E i \in 1..Len(creation.gdf1) : Overlap(i, j))
                    => \E i \in 1..Len(creation.gdf1) : BestForB(i, j) /\ KeptOverlap(i, j)
        /\ \A k \in 1..Len(creation.idx) :
                \E i \in 1..Len(creation.gdf1), j \in 1..Len(creation.gdf2) :
                    /\ creation.idx[k] = <<creation.gdf1[i].id, creation.gdf2[j].id>>
                    /\ BestForA(i, j) \/ BestForB(i, j)

\* the overlap step has kept a pair that is the best of its building of B
\* and not the best of its building of A
C22_Witness ==
    /\ creation.pc = "nearest"
    /\ \E i \in 1..Len(creation.gdf1), j \in 1..Len(creation.gdf2) :
            /\ KeptOverlap(i, j)
            /\ BestForB(i, j)
            /\ ~ BestForA(i, j)

---------------------------------------------------------------------------
\* the gap between the footprints of buildings i of A and j of B
Gap(i, j) ==
    IF FootprintA(i).hi < FootprintB(j).lo THEN FootprintB(j).lo - FootprintA(i).hi
    ELSE IF FootprintB(j).hi < FootprintA(i).lo THEN FootprintA(i).lo - FootprintB(j).hi
    ELSE 0

\* the pairs are identified and hold the pair of buildings i and j
Paired(i, j) ==
    \E k \in 1..Len(creation.pairs) :
        creation.pairs[k] = <<creation.gdf1[i].id, creation.gdf2[j].id>>

\* the overlap step has kept a pair of building i of A, of building j of B
MatchedA(i) == \E j \in 1..Len(creation.gdf2) : KeptOverlap(i, j)
MatchedB(j) == \E i \in 1..Len(creation.gdf1) : KeptOverlap(i, j)

\* C23: the cutoff of the nearest-neighbor pairs.  Once the pairs are
\* identified, a pair that the overlap step has not kept is a pair of a
\* building the overlap step left unmatched, and with a distance cap its
\* two buildings are no farther apart than the cap; with a cap of 0 or an
\* empty dataset the pairs are those of the overlap step; and with a cap, a
\* building that the overlap step left unmatched and whose nearest building
\* of the other dataset is beyond the cap is in no pair.
C23_NearestRespectsCutoff ==
    creation.pc \in {"verify", "filter"} =>
        /\ \A i \in 1..Len(creation.gdf1), j \in 1..Len(creation.gdf2) :
                (Paired(i, j) /\ ~ KeptOverlap(i, j)) =>
                    /\ ~ MatchedA(i) \/ ~ MatchedB(j)
                    /\ creation.max_distance # NoCap => Gap(i, j) <= creation.max_distance
        /\ (\/ creation.max_distance = 0
            \/ Len(creation.gdf1) = 0
            \/ Len(creation.gdf2) = 0) => creation.pairs = creation.idx
        /\ creation.max_distance # NoCap =>
                /\ \A i \in 1..Len(creation.gdf1) :
                        (/\ ~ MatchedA(i)
                         /\ \A j \in 1..Len(creation.gdf2) : Gap(i, j) > creation.max_distance)
                            => \A j \in 1..Len(creation.gdf2) : ~ Paired(i, j)
                /\ \A j \in 1..Len(creation.gdf2) :
                        (/\ ~ MatchedB(j)
                         /\ \A i \in 1..Len(creation.gdf1) : Gap(i, j) > creation.max_distance)
                            => \A i \in 1..Len(creation.gdf1) : ~ Paired(i, j)

\* with a positive cap, one building has got its nearest building within
\* the cap and another building, beyond the cap of every building of the
\* other dataset, is in no pair
C23_Witness ==
    /\ creation.pc = "filter"
    /\ creation.max_distance > 0
    /\ \E i \in 1..Len(creation.gdf1), j \in 1..Len(creation.gdf2) :
            Paired(i, j) /\ ~ KeptOverlap(i, j)
    /\ \E i \in 1..Len(creation.gdf1) :
            /\ \A j \in 1..Len(creation.gdf2) : Gap(i, j) > creation.max_distance
            /\ \A j \in 1..Len(creation.gdf2) : ~ Paired(i, j)

---------------------------------------------------------------------------
\* the grid cell of the centroid of a footprint
Cell(g) == IF (g.lo + g.hi) % 2 = 0 THEN (g.lo + g.hi) \div 2 ELSE (g.lo + g.hi - 1) \div 2

\* the neighborhoods touched by the pairs of the container: the cells of the
\* buildings of its pairs, among the buildings the function was called with
Touched ==
    {Cell(r.geometry) : r \in {x \in Range(creation.gdf_path1) :
                                \E k \in 1..Len(creation.pairs) : creation.pairs[k][1] = x.id}}
    \cup
    {Cell(r.geometry) : r \in {x \in Range(creation.gdf_path2) :
                                \E k \in 1..Len(creation.pairs) : creation.pairs[k][2] = x.id}}

\* a building is in or next to a touched neighborhood
Nearby(r) == \E c \in Touched : Cell(r.geometry) \in {c - 1, c, c + 1}

\* C24: pruning.  The datasets of the returned container are exactly the
\* buildings the function was called with that are in a neighborhood
\* touched by a pair of the container, or in a neighborhood next to one.
C24_PrunedToNearby ==
    creation.pc = "done" =>
        /\ Range(creation.gdf1) = {r \in Range(creation.gdf_path1) : Nearby(r)}
        /\ Range(creation.gdf2) = {r \in Range(creation.gdf_path2) : Nearby(r)}

---------------------------------------------------------------------------
---------------------------------------------------------------------------
\* C26: restart equivalence.  A State constructed from the results file
\* answers every query for the next pair and the next neighborhood, for
\* every policy and user, as the State that wrote the file does, and
\* writes the same aggregated results.
C26_RestartEquivalence ==
    file.exists =>
        /\ \A lm \in LabelModes, u \in Users \cup {None} :
                /\ get_next_pair(_load_results(file), annotation_redundancy,
                                 consensus_margin, lm, u)
                     = get_next_pair(results, annotation_redundancy, consensus_margin, lm, u)
                /\ \A o \in SetOrders :
                        get_next_neighborhood(_load_results(file), annotation_redundancy,
                                              lm, u, o)
                            = get_next_neighborhood(results, annotation_redundancy, lm, u, o)
        /\ store_aggregated_results(_load_results(file), annotation_redundancy,
                                    consensus_margin)
             = store_aggregated_results(results, annotation_redundancy, consensus_margin)

---------------------------------------------------------------------------
\* C27: every pair served is a candidate pair.  After any calls of
\* add_result and add_bulk_results, also for pairs of ids that are no row
\* of the candidate pairs, the next pair and the pair after next of every
\* policy and user are rows of the candidate pairs, or (None, None).
C27_ServedPairIsCandidate ==
    \A lm \in LabelModes, u \in Users \cup {None} :
        /\ get_next_pair(results, annotation_redundancy, consensus_margin, lm, u)
                \in Range(pairs) \cup {<<None, None>>}
        /\ get_pair_after_next(results, annotation_redundancy, consensus_margin, lm, u)
                \in Range(pairs) \cup {<<None, None>>}

---------------------------------------------------------------------------
\* the next pair and the pair after next of user u under the policy "all",
\* for the log
NextAll(log, u) == get_next_pair(log, annotation_redundancy, consensus_margin, "all", u)
AfterNextAll(log, u) ==
    get_pair_after_next(log, annotation_redundancy, consensus_margin, "all", u)

\* C28: pre-fetch consistency under the policy "all".  Let p1 be the next
\* pair of user U and p2, distinct from p1, the pair after next.  A call
\* that records decisions of other users only leaves both as they are; and
\* the call that records the decision of U for p1 makes p2 the next pair
\* of U.  So whatever other users record in between, once U has recorded a
\* decision for p1 the next pair of U is p2.
C28_PrefetchConsistency ==
    [][\A u \in Users :
        /\ (\A i \in (Len(results) + 1)..Len(results') : results'[i].username # u)
                => /\ NextAll(results', u) = NextAll(results, u)
                   /\ AfterNextAll(results', u) = AfterNextAll(results, u)
        /\ (/\ Len(results') = Len(results) + 1
            /\ results'[Len(results')].username = u
            /\ Pair(results'[Len(results')]) = NextAll(results, u)
            /\ NextAll(results, u) # AfterNextAll(results, u))
                => NextAll(results', u) = AfterNextAll(results, u)]_vars

\* another user has recorded a decision, then the user has recorded
\* "unsure" for the pair that was next, and the pair that was after next is
\* the next pair now
C28_Witness ==
    /\ Len(results) = 2
    /\ results[1].username # results[2].username
    /\ results[2].match = "unsure"
    /\ Pair(results[2]) = NextAll(<<results[1]>>, results[2].username)
    /\ NextAll(results, results[2].username) = AfterNextAll(<<results[1]>>, results[2].username)
    /\ NextAll(results, results[2].username) # <<None, None>>

\* C29: a labeling session terminates.  While a user asks for the next pair
\* under one label mode and stores a valid decision for each pair shown, and
\* nobody else stores anything, no pair is shown twice and the number of
\* pairs shown never exceeds the number of candidate pairs, so the
\* completion page comes after at most that many decisions.
C29_SessionTerminates ==
    pc \in {"show", "label", "success"} =>
        /\ \A i, j \in 1..Len(local.served) :
                local.served[i] = local.served[j] => i = j
        /\ Len(local.served) <= Len(pairs)

\* C30: when the add_result calls of different sessions overlap in time,
\* then once every request is answered the results file is the deduplicated
\* record set of the complete log: no record of a completed call is missing
\* because an older snapshot was written last.
C30_FileHoldsCompleteLog ==
    (\A t \in Threads : /\ pc[t] = "done"
                        /\ local[t].request = "/store-label"
                        /\ local[t].match \in Labels)
        => file = store_results(results)

===========================================================================
